---- MODULE Spec2Model ----
(***************************************************************************)
(* Tyck: chainable constraint builders (tyck/types_.py), schema synthesis  *)
(* (tyck/interface.py) and the derived-schema operators (tyck/utils.py).   *)
(*                                                                         *)
(* Python objects live in heaps: `builders` holds the TyckType instances,  *)
(* `dicts` the _constraints dictionaries and `lists` the _examples lists   *)
(* they point to, `schemas` the model classes made by create_model.  A     *)
(* reference is an index into its heap, so aliasing is visible.            *)
(***************************************************************************)
EXTENDS Integers, Sequences, FiniteSets, TLC

VARIABLES builders, dicts, lists, calls, schemas, derivs, last

vars == <<builders, dicts, lists, calls, schemas, derivs, last>>

\* ---------------------------------------------------------------- bounds
MaxBuilders == 4
MaxSchemas == 2
MaxChain == 3
MaxStrLen == 3

MaxListLen == 3

MaxNumber == 4

MaxObjects == 6

MaxAssignments == 4

\* ------------------------------------------------------- values and inputs
\* Optional[T] slots: Python None is the empty tuple, a value v is <<v>>.
None == <<>>

Some(v) == <<v>>

PydanticUndefined == <<"PydanticUndefined", "PydanticUndefined">>

Lengths == {2, 5}

Bounds == {0, 3}

RangeArgs == {<<0, 3>>, <<3, 0>>}

DefaultValues == {Some("dv"), None}

AliasValues == {"al"}

ExampleTuples == {<<"ex">>}

IpVersions == {None, Some(4), Some(6)}

EMAIL_PATTERN == "EMAIL_PATTERN"

URL_PATTERN == "URL_PATTERN"

UUID_PATTERN == "UUID_PATTERN"

DATETIME_PATTERN == "DATETIME_PATTERN"

DATE_PATTERN == "DATE_PATTERN"

TIME_PATTERN == "TIME_PATTERN"

IPV4_PATTERN == "IPV4_PATTERN"

IPV6_PATTERN == "IPV6_PATTERN"

IPV4_OR_IPV6_PATTERN == "(IPV4_PATTERN)|(IPV6_PATTERN)"

EmptyDict == [k \in {} |-> TRUE]

\* The three heaps a builder call reads and writes.
Heap == [builders |-> builders, dicts |-> dicts, lists |-> lists]

\* ------------------------------------------------------------ constructors
TyckType_init(d) ==
    [constraints |-> d, default |-> PydanticUndefined, has_default |-> FALSE,
     alias |-> None, description |-> None, title |-> None, examples |-> None,
     deprecated |-> FALSE]

StringValidator_init(d) ==
    TyckType_init(d) @@
    [cls |-> "StringValidator", min_length |-> None, max_length |-> None,
     pattern |-> None, strip_whitespace |-> FALSE, to_lower |-> FALSE,
     to_upper |-> FALSE]

NumberValidator_init(d, is_integer) ==
    TyckType_init(d) @@
    [cls |-> "NumberValidator", is_integer |-> is_integer, gt |-> None,
     ge |-> None, lt |-> None, le |-> None, multiple_of |-> None,
     allow_inf_nan |-> TRUE]

ArrayValidator_init(d, item_type) ==
    TyckType_init(d) @@
    [cls |-> "ArrayValidator", item_type |-> item_type, min_length |-> None,
     max_length |-> None, unique |-> FALSE]

\* OptionalValidator.__init__: the wrapper has the default None from the
\* start.
OptionalValidator_init(d, wrapped_type) ==
    [TyckType_init(d) EXCEPT !.default = None, !.has_default = TRUE] @@
    [cls |-> "OptionalValidator", wrapped |-> wrapped_type]

\* Module-level singletons: string is builder 1, number is builder 2.
string == 1

number == 2

Singletons == {string, number}

\* ------------------------------------------------------------------- _copy
\* _copy: copy.copy(self) shares every attribute; _copy then gives the clone its own
\* _constraints dict and, when _examples is a non-empty list, its own list.
\* The subclass _copy methods re-assign attributes copy.copy already copied.
\* Mutant of _copy: the clone keeps the receiver's _constraints dict.
TyckType_copy_shared_dict(H, self) ==
    [H |-> [builders |-> Append(H.builders, H.builders[self]),
            dicts |-> H.dicts,
            lists |-> H.lists],
     ret |-> Len(H.builders) + 1]

TyckType_copy(H, self) ==
    LET b == H.builders[self]
        ownList == b.examples # None /\ Len(H.lists[b.examples[1]]) > 0
        new == [b EXCEPT !.constraints = Len(H.dicts) + 1,
                         !.examples = IF ownList THEN Some(Len(H.lists) + 1)
                                      ELSE @]
    IN [H |-> [builders |-> Append(H.builders, new),
               dicts |-> Append(H.dicts, H.dicts[b.constraints]),
               lists |-> IF ownList
                         THEN Append(H.lists, H.lists[b.examples[1]])
                         ELSE H.lists],
        ret |-> Len(H.builders) + 1]

\* new.<attr> = value on the object a call returned.
SetAttr(r, attr, value) ==
    [r EXCEPT !.H.builders[r.ret][attr] = value]

\* ------------------------------------------------ TyckType chain methods
\* Mutant of default: a default of None is taken for no default.
TyckType_default_unless_none(H, self, value) ==
    IF value = None THEN TyckType_copy(H, self)
    ELSE SetAttr(SetAttr(TyckType_copy(H, self), "default", value),
                 "has_default", TRUE)

TyckType_default(H, self, value) ==
    SetAttr(SetAttr(TyckType_copy(H, self), "default", value),
            "has_default", TRUE)

TyckType_optional(H, self) == TyckType_default(H, self, None)

TyckType_alias(H, self, name) ==
    SetAttr(TyckType_copy(H, self), "alias", Some(name))

TyckType_description(H, self, text) ==
    SetAttr(TyckType_copy(H, self), "description", Some(text))

TyckType_title(H, self, text) ==
    SetAttr(TyckType_copy(H, self), "title", Some(text))

\* new._examples = list(values): a fresh list object.
TyckType_examples(H, self, values) ==
    LET c == TyckType_copy(H, self)
        c2 == [c EXCEPT !.H.lists = Append(@, values)]
    IN SetAttr(c2, "examples", Some(Len(c2.H.lists)))

TyckType_deprecated(H, self, is_deprecated) ==
    SetAttr(TyckType_copy(H, self), "deprecated", is_deprecated)

\* ------------------------------------------ StringValidator chain methods
\* Mutant of min: an earlier, set bound is kept instead of overwritten.
StringValidator_min_keep_first(H, self, length) ==
    LET c == TyckType_copy(H, self)
    IN IF H.builders[self].min_length = None
       THEN [c EXCEPT !.H.builders[c.ret].min_length = Some(length)]
       ELSE c

StringValidator_min(H, self, length) ==
    SetAttr(TyckType_copy(H, self), "min_length", Some(length))

StringValidator_max(H, self, length) ==
    SetAttr(TyckType_copy(H, self), "max_length", Some(length))

StringValidator_length(H, self, length) ==
    SetAttr(SetAttr(TyckType_copy(H, self), "min_length", Some(length)),
            "max_length", Some(length))

StringValidator_email(H, self) ==
    SetAttr(TyckType_copy(H, self), "pattern", Some(EMAIL_PATTERN))

StringValidator_url(H, self) ==
    SetAttr(TyckType_copy(H, self), "pattern", Some(URL_PATTERN))

StringValidator_uuid(H, self) ==
    SetAttr(TyckType_copy(H, self), "pattern", Some(UUID_PATTERN))

\* Mutant of pattern: a pattern that is set already is kept.
StringValidator_pattern_keep_first(H, self, regex) ==
    LET c == TyckType_copy(H, self)
    IN IF H.builders[self].pattern = None
       THEN [c EXCEPT !.H.builders[c.ret].pattern = Some(regex)]
       ELSE c

StringValidator_pattern(H, self, regex) ==
    SetAttr(TyckType_copy(H, self), "pattern", Some(regex))

StringValidator_datetime(H, self) ==
    SetAttr(TyckType_copy(H, self), "pattern", Some(DATETIME_PATTERN))

StringValidator_date(H, self) ==
    SetAttr(TyckType_copy(H, self), "pattern", Some(DATE_PATTERN))

StringValidator_time(H, self) ==
    SetAttr(TyckType_copy(H, self), "pattern", Some(TIME_PATTERN))

StringValidator_ip(H, self, version) ==
    SetAttr(TyckType_copy(H, self), "pattern",
            IF version = Some(4) THEN Some(IPV4_PATTERN)
            ELSE IF version = Some(6) THEN Some(IPV6_PATTERN)
            ELSE Some(IPV4_OR_IPV6_PATTERN))

\* new._constraints['json_validate'] = True writes into the clone's dict.
StringValidator_json(H, self) ==
    LET c == TyckType_copy(H, self)
        d == c.H.builders[c.ret].constraints
    IN [c EXCEPT !.H.dicts[d] = ("json_validate" :> TRUE) @@ @]

StringValidator_strip(H, self) ==
    SetAttr(TyckType_copy(H, self), "strip_whitespace", TRUE)

\* Mutant of lower: the later of lower() and upper() wins.
StringValidator_lower_clears_upper(H, self) ==
    SetAttr(SetAttr(TyckType_copy(H, self), "to_lower", TRUE),
            "to_upper", FALSE)

StringValidator_lower(H, self) ==
    SetAttr(TyckType_copy(H, self), "to_lower", TRUE)

StringValidator_upper(H, self) ==
    SetAttr(TyckType_copy(H, self), "to_upper", TRUE)

\* ------------------------------------------ NumberValidator chain methods
NumberValidator_integer(H, self) ==
    SetAttr(TyckType_copy(H, self), "is_integer", TRUE)

NumberValidator_gt(H, self, value) ==
    SetAttr(TyckType_copy(H, self), "gt", Some(value))

NumberValidator_gte(H, self, value) ==
    SetAttr(TyckType_copy(H, self), "ge", Some(value))

NumberValidator_lt(H, self, value) ==
    SetAttr(TyckType_copy(H, self), "lt", Some(value))

NumberValidator_lte(H, self, value) ==
    SetAttr(TyckType_copy(H, self), "le", Some(value))

NumberValidator_range(H, self, min_val, max_val) ==
    SetAttr(SetAttr(TyckType_copy(H, self), "ge", Some(min_val)),
            "le", Some(max_val))

\* Mutant of positive: the inclusive bound is set instead of the strict one.
NumberValidator_positive_inclusive(H, self) ==
    [TyckType_copy(H, self) EXCEPT
        !.H.builders[Len(H.builders) + 1].ge = Some(0)]

NumberValidator_positive(H, self) == NumberValidator_gt(H, self, 0)

NumberValidator_non_negative(H, self) == NumberValidator_gte(H, self, 0)

NumberValidator_negative(H, self) == NumberValidator_lt(H, self, 0)

NumberValidator_non_positive(H, self) == NumberValidator_lte(H, self, 0)

NumberValidator_finite(H, self) ==
    SetAttr(TyckType_copy(H, self), "allow_inf_nan", FALSE)

NumberValidator_multiple_of(H, self, value) ==
    SetAttr(TyckType_copy(H, self), "multiple_of", Some(value))

\* ------------------------------------------- ArrayValidator chain methods
ArrayValidator_min(H, self, length) ==
    SetAttr(TyckType_copy(H, self), "min_length", Some(length))

ArrayValidator_max(H, self, length) ==
    SetAttr(TyckType_copy(H, self), "max_length", Some(length))

ArrayValidator_length(H, self, length) ==
    SetAttr(SetAttr(TyckType_copy(H, self), "min_length", Some(length)),
            "max_length", Some(length))

ArrayValidator_unique(H, self) ==
    SetAttr(TyckType_copy(H, self), "unique", TRUE)

\* array(item_type): a new ArrayValidator with a new, empty _constraints.
\* Mutant: an array whose item type is the array itself.
array_of_itself(H, item_type) ==
    [H |-> [builders |-> Append(H.builders,
                                ArrayValidator_init(Len(H.dicts) + 1,
                                                    Some(Len(H.builders) + 1))),
            dicts |-> Append(H.dicts, EmptyDict),
            lists |-> H.lists],
     ret |-> Len(H.builders) + 1]

array(H, item_type) ==
    [H |-> [builders |-> Append(H.builders,
                                ArrayValidator_init(Len(H.dicts) + 1,
                                                    Some(item_type))),
            dicts |-> Append(H.dicts, EmptyDict),
            lists |-> H.lists],
     ret |-> Len(H.builders) + 1]

\* optional(wrapped_type): a new OptionalValidator around the builder.
optional(H, wrapped_type) ==
    [H |-> [builders |-> Append(H.builders,
                                OptionalValidator_init(Len(H.dicts) + 1,
                                                       Some(wrapped_type))),
            dicts |-> Append(H.dicts, EmptyDict),
            lists |-> H.lists],
     ret |-> Len(H.builders) + 1]

\* ------------------------------------------------------------ observation
\* What can be observed of one builder: its attributes, with the contents of
\* the dict and list it points to in place of the references.
View(H, i) ==
    LET b == H.builders[i]
    IN [b EXCEPT !.constraints = H.dicts[b.constraints],
                 !.examples = IF b.examples = None THEN None
                              ELSE Some(H.lists[b.examples[1]])]

RefsOf(cls) == {i \in 1..Len(builders) : builders[i].cls = cls}

AllRefs == 1..Len(builders)


\* ------------------------------------------------------------------ build
Truthy(slot) == slot # None /\ slot[1] # ""

AddIfSet(kwargs, key, slot) ==
    IF slot # None THEN (key :> slot) @@ kwargs ELSE kwargs

TyckType_build_field_kwargs(H, self) ==
    LET b == H.builders[self]
        k0 == IF b.has_default THEN ("default" :> b.default) ELSE EmptyDict
        k1 == IF Truthy(b.alias) THEN ("alias" :> b.alias) @@ k0 ELSE k0
        k2 == IF Truthy(b.description)
              THEN ("description" :> b.description) @@ k1 ELSE k1
        k3 == IF Truthy(b.title) THEN ("title" :> b.title) @@ k2 ELSE k2
        k4 == IF b.examples # None /\ Len(H.lists[b.examples[1]]) > 0
              THEN ("examples" :> Some(H.lists[b.examples[1]])) @@ k3 ELSE k3
    IN IF b.deprecated THEN ("deprecated" :> Some(TRUE)) @@ k4 ELSE k4

FieldKeys ==
    {"annotation", "default", "alias", "title", "description", "examples",
     "deprecated", "min_length", "max_length", "pattern", "gt", "ge", "lt",
     "le", "multiple_of"}

\* pydantic.Field(**kwargs): a FieldInfo whose unnamed attributes are unset.
Field(kwargs) ==
    [k \in FieldKeys |->
        IF k \in DOMAIN kwargs THEN kwargs[k]
        ELSE IF k = "default" THEN PydanticUndefined ELSE None]

Annotated(base_type, validators) ==
    IF validators # <<>>
    THEN [base |-> "Annotated", arg |-> base_type, validators |-> validators]
    ELSE base_type

\* Values handed to a model: a str as its characters, or an int.
StrValue(chars) == [type |-> "str", chars |-> chars]

\* str.strip(), str.lower(), str.upper() on the characters " ", "a", "A".
str_strip(chars) ==
    LET kept == {i \in 1..Len(chars) : chars[i] # " "}
    IN IF kept = {} THEN <<>>
       ELSE SubSeq(chars,
                   CHOOSE i \in kept : \A o \in kept : i <= o,
                   CHOOSE i \in kept : \A o \in kept : o <= i)

str_lower(chars) ==
    [i \in 1..Len(chars) |-> IF chars[i] = "A" THEN "a" ELSE chars[i]]

str_upper(chars) ==
    [i \in 1..Len(chars) |-> IF chars[i] = "a" THEN "A" ELSE chars[i]]

\* The closure string_transform of StringValidator.build.
string_transform(strip_ws, to_lower, to_upper, v) ==
    IF v.type = "str"
    THEN LET v1 == IF strip_ws THEN str_strip(v.chars) ELSE v.chars
             v2 == IF to_lower THEN str_lower(v1) ELSE v1
             v3 == IF to_upper THEN str_upper(v2) ELSE v2
         IN StrValue(v3)
    ELSE v

\* Mutant of build: the transform is attached to run after validation.
StringValidator_build_after(H, self) ==
    LET b == H.builders[self]
        kwargs == AddIfSet(AddIfSet(AddIfSet(
                      TyckType_build_field_kwargs(H, self),
                      "min_length", b.min_length),
                      "max_length", b.max_length),
                      "pattern", b.pattern)
        before == IF b.strip_whitespace \/ b.to_lower \/ b.to_upper
                  THEN <<[validator |-> "AfterValidator",
                          fn |-> "string_transform",
                          strip_ws |-> b.strip_whitespace,
                          to_lower |-> b.to_lower, to_upper |-> b.to_upper]>>
                  ELSE <<>>
        d == H.dicts[b.constraints]
        after == IF "json_validate" \in DOMAIN d /\ d["json_validate"]
                 THEN <<[validator |-> "AfterValidator",
                         fn |-> "validate_json"]>>
                 ELSE <<>>
    IN <<Annotated([base |-> "str"], before \o after), Field(kwargs)>>

StringValidator_build(H, self) ==
    LET b == H.builders[self]
        kwargs == AddIfSet(AddIfSet(AddIfSet(
                      TyckType_build_field_kwargs(H, self),
                      "min_length", b.min_length),
                      "max_length", b.max_length),
                      "pattern", b.pattern)
        before == IF b.strip_whitespace \/ b.to_lower \/ b.to_upper
                  THEN <<[validator |-> "BeforeValidator",
                          fn |-> "string_transform",
                          strip_ws |-> b.strip_whitespace,
                          to_lower |-> b.to_lower, to_upper |-> b.to_upper]>>
                  ELSE <<>>
        d == H.dicts[b.constraints]
        after == IF "json_validate" \in DOMAIN d /\ d["json_validate"]
                 THEN <<[validator |-> "AfterValidator",
                         fn |-> "validate_json"]>>
                 ELSE <<>>
    IN <<Annotated([base |-> "str"], before \o after), Field(kwargs)>>

NumberValidator_build(H, self) ==
    LET b == H.builders[self]
        kwargs == AddIfSet(AddIfSet(AddIfSet(AddIfSet(AddIfSet(
                      TyckType_build_field_kwargs(H, self),
                      "gt", b.gt), "ge", b.ge), "lt", b.lt), "le", b.le),
                      "multiple_of", b.multiple_of)
        base_type == [base |-> IF b.is_integer THEN "int" ELSE "float"]
    IN <<Annotated(base_type,
                   IF ~b.allow_inf_nan
                   THEN <<[validator |-> "AfterValidator",
                           fn |-> "check_finite"]>>
                   ELSE <<>>),
         Field(kwargs)>>

TypingOptional(annotation) == [base |-> "Optional", arg |-> annotation]

\* build() by class; ArrayValidator.build and OptionalValidator.build resolve
\* the child with the child's own build() and keep the annotation only
\* (_resolve_type: result[0]).
RECURSIVE build(_, _)
build(H, self) ==
    LET b == H.builders[self]
    IN CASE b.cls = "StringValidator" -> StringValidator_build(H, self)
         [] b.cls = "NumberValidator" -> NumberValidator_build(H, self)
         [] b.cls = "ArrayValidator" ->
              LET kwargs == AddIfSet(AddIfSet(
                                TyckType_build_field_kwargs(H, self),
                                "min_length", b.min_length),
                                "max_length", b.max_length)
                  item_type == build(H, b.item_type[1])[1]
                  list_type == [base |-> "List", arg |-> item_type]
              IN <<Annotated(list_type,
                             IF b.unique
                             THEN <<[validator |-> "AfterValidator",
                                     fn |-> "check_unique"]>>
                             ELSE <<>>),
                   Field(kwargs)>>
         [] b.cls = "OptionalValidator" ->
              <<TypingOptional(build(H, b.wrapped[1])[1]),
                Field(TyckType_build_field_kwargs(H, self))>>

\* --------------------------------------------------------- generated name
\* str.encode(): the code points of the field names the model uses.
encode(str) ==
    CASE str = "a" -> <<97>>
      [] str = "b" -> <<98>>
      [] str = "c" -> <<99>>
      [] str = "a_b" -> <<97, 95, 98>>

\* Python's order on str: lexicographic on code points.
StrLess(x, y) ==
    LET ex == encode(x)
        ey == encode(y)
    IN \E n \in 0..Len(ex) :
          /\ n <= Len(ey)
          /\ \A k \in 1..n : ex[k] = ey[k]
          /\ \/ (n = Len(ex) /\ n < Len(ey))
             \/ (n < Len(ex) /\ n < Len(ey) /\ ex[n + 1] < ey[n + 1])

RECURSIVE sorted(_)
sorted(keys) ==
    IF keys = {} THEN <<>>
    ELSE LET least == CHOOSE k \in keys : \A o \in keys \ {k} : StrLess(k, o)
         IN <<least>> \o sorted(keys \ {least})

\* '_'.join(names).encode()
RECURSIVE join_encode(_)
join_encode(names) ==
    IF names = <<>> THEN <<>>
    ELSE IF Len(names) = 1 THEN encode(names[1])
    ELSE encode(names[1]) \o <<95>> \o join_encode(Tail(names))

\* hashlib.md5(...).hexdigest()[:8]: a fixed function of the bytes with a
\* 16-bit result; md5 itself is replaced by a polynomial hash.
RECURSIVE md5_8(_)
md5_8(bytes) ==
    IF bytes = <<>> THEN 7
    ELSE (md5_8(SubSeq(bytes, 1, Len(bytes) - 1)) * 31
          + bytes[Len(bytes)]) % 65536

Keys(fields) == [i \in 1..Len(fields) |-> fields[i][1]]

KeySet(fields) == {fields[i][1] : i \in 1..Len(fields)}

\* Mutant of the name derivation: the number of keys is hashed with them.
generated_name_counted(fields) ==
    "Interface_"
    \o ToString(md5_8(<<Len(fields)>> \o join_encode(sorted(KeySet(fields)))))

\* Mutant of the name derivation: the keys are joined in insertion order.
generated_name_unsorted(fields) ==
    "Interface_" \o ToString(md5_8(join_encode(Keys(fields))))

generated_name(fields) ==
    "Interface_" \o ToString(md5_8(join_encode(sorted(KeySet(fields)))))

\* ------------------------------------------------------------- interface
\* dict[key] = value on an insertion-ordered dict kept as <<key, value>> pairs.
DictSet(pairs, key, value) ==
    IF \E i \in 1..Len(pairs) : pairs[i][1] = key
    THEN [i \in 1..Len(pairs) |->
             IF pairs[i][1] = key THEN <<key, value>> ELSE pairs[i]]
    ELSE Append(pairs, <<key, value>>)

\* The `...` of (type, ...): a required field without constraints.
Ellipsis == [k \in {"Ellipsis"} |-> TRUE]

\* What create_model accepts as a field definition: a 2-tuple whose first
\* item is an annotation.
IsFieldDefinition(f_def) ==
    /\ f_def.shape = "tuple"
    /\ Len(f_def.pair) = 2
    /\ f_def.pair[1] # None

\* The fields of a class in definition order: the parent's, then the class's
\* own; a redefined field keeps the parent's position.
RECURSIVE collect_fields(_, _)
collect_fields(inherited, own) ==
    IF own = <<>> THEN inherited
    ELSE LET k == Len(own)
             rest == collect_fields(inherited, SubSeq(own, 1, k - 1))
         IN IF \E i \in 1..Len(rest) : rest[i].name = own[k].name
            THEN [i \in 1..Len(rest) |->
                     IF rest[i].name = own[k].name THEN own[k] ELSE rest[i]]
            ELSE Append(rest, own[k])

\* pydantic.create_model(name, **kwargs, **fields) over the classes S: the
\* class keeps, per field, the FieldInfo it was given with the annotation it
\* was given; __base__, __config__ and __validators__ are what the class is
\* built from.  A definition that is not a (type, default) pair is refused.
create_model(S, name, kwargs, pydantic_fields) ==
    LET own == [i \in 1..Len(pydantic_fields) |->
                   LET pair == pydantic_fields[i][2].pair
                       info == IF pair[2] = Ellipsis THEN Field(EmptyDict)
                               ELSE pair[2]
                   IN [name |-> pydantic_fields[i][1],
                       info |-> [info EXCEPT !.annotation = pair[1]]]]
        base == IF "__base__" \in DOMAIN kwargs THEN kwargs["__base__"]
                ELSE None
        config == IF "__config__" \in DOMAIN kwargs
                  THEN kwargs["__config__"][1] ELSE {}
        inherited == IF base = None THEN <<>> ELSE S[base[1]].model_fields
    IN IF \E i \in 1..Len(pydantic_fields) :
             ~IsFieldDefinition(pydantic_fields[i][2])
       THEN [error |-> "PydanticUserError"]
       ELSE [error |-> "none",
             model |->
                [name |-> name,
                 model_fields |-> collect_fields(inherited, own),
                 model_config |-> config,
                 built_with |->
                    [base |-> base,
                     config |-> config,
                     validators |->
                        IF "__validators__" \in DOMAIN kwargs
                        THEN kwargs["__validators__"] ELSE None],
                 doc |-> None]]

\* One field definition of the mapping to what create_model is given.
resolve_field(H, field_def) ==
    CASE field_def.shape = "TyckType" ->
            [shape |-> "tuple", pair |-> build(H, field_def.ref)]
      [] field_def.shape = "FieldInfo" ->
            [shape |-> "tuple",
             pair |-> <<field_def.info.annotation, field_def.info>>]
      [] field_def.shape = "tuple" /\ Len(field_def.pair) = 2 -> field_def
      [] field_def.shape = "model" ->
            [shape |-> "tuple",
             pair |-> <<[base |-> "model", ref |-> field_def.ref],
                        Ellipsis>>]
      [] OTHER ->
            IF field_def.shape = "type"
            THEN [shape |-> "tuple", pair |-> <<field_def.type, Ellipsis>>]
            ELSE field_def

\* Mutant of the resolution loop: a definition that does not resolve to a
\* pair is left out and the rest is synthesized.
RECURSIVE resolve_fields_skip(_, _)
resolve_fields_skip(H, fields) ==
    IF fields = <<>> THEN <<>>
    ELSE LET k == Len(fields)
             rest == resolve_fields_skip(H, SubSeq(fields, 1, k - 1))
             resolved == resolve_field(H, fields[k][2])
         IN IF resolved.shape = "tuple" /\ Len(resolved.pair) = 2
            THEN DictSet(rest, fields[k][1], resolved)
            ELSE rest

RECURSIVE resolve_fields(_, _)
resolve_fields(H, fields) ==
    IF fields = <<>> THEN <<>>
    ELSE DictSet(resolve_fields(H, SubSeq(fields, 1, Len(fields) - 1)),
                 fields[Len(fields)][1],
                 resolve_field(H, fields[Len(fields)][2]))

\* Mutant of interface: an empty mapping is refused.
interface_reject_empty(S, H, fields, config, validators, name, base, doc) ==
    LET pydantic_fields == resolve_fields(H, fields)
        cls_name == IF name = None THEN generated_name(fields) ELSE name[1]
        created == create_model(S, cls_name, EmptyDict, pydantic_fields)
        model == created.model
        model2 == IF config # None /\ config[1] # {}
                  THEN [model EXCEPT !.model_config = @ \cup config[1]]
                  ELSE model
        model3 == IF doc # None /\ doc[1] # ""
                  THEN [model2 EXCEPT !.doc = doc] ELSE model2
    IN IF fields = <<>>
       THEN [schemas |-> S, ret |-> 0, error |-> "ValueError"]
       ELSE IF created.error # "none"
       THEN [schemas |-> S, ret |-> 0, error |-> created.error]
       ELSE [schemas |-> Append(S, model3), ret |-> Len(S) + 1,
             error |-> "none"]

\* interface(fields, config=, validators=, name=, base=): model_kwargs (base)
\* and validators are never handed to create_model; config is applied to the
\* class after it exists.  The result is the new class appended to S; an
\* exception of create_model leaves S as it is.
interface(S, H, fields, config, validators, name, base, doc) ==
    LET pydantic_fields == resolve_fields(H, fields)
        cls_name == IF name = None THEN generated_name(fields) ELSE name[1]
        model_kwargs == IF base # None THEN ("__base__" :> base)
                        ELSE EmptyDict
        created == create_model(S, cls_name, EmptyDict, pydantic_fields)
        model == created.model
        model2 == IF config # None /\ config[1] # {}
                  THEN [model EXCEPT !.model_config = @ \cup config[1]]
                  ELSE model
        model3 == IF doc # None /\ doc[1] # ""
                  THEN [model2 EXCEPT !.doc = doc] ELSE model2
    IN IF created.error # "none"
       THEN [schemas |-> S, ret |-> 0, error |-> created.error]
       ELSE [schemas |-> Append(S, model3), ret |-> Len(S) + 1,
             error |-> "none"]


\* ---------------------------------------------------------- schema algebra
typing_Any == [base |-> "Any"]

FieldNamesOf(model) ==
    [i \in 1..Len(model.model_fields) |-> model.model_fields[i].name]

FieldSetOf(model) ==
    {model.model_fields[i].name : i \in 1..Len(model.model_fields)}

\* model_fields[field_name]
FieldInfoOf(model, field_name) ==
    LET i == CHOOSE k \in 1..Len(model.model_fields) :
                 model.model_fields[k].name = field_name
    IN model.model_fields[i].info

field_info_to_tuple(field_info) ==
    [shape |-> "tuple",
     pair |-> <<IF field_info.annotation = None THEN typing_Any
                ELSE field_info.annotation,
                field_info>>]

Failed(S, error) == [schemas |-> S, ret |-> 0, error |-> error]

DefaultName(name, prefix, model) ==
    IF name = None THEN Some(prefix \o model.name) ELSE name

RECURSIVE picked_fields(_, _)
picked_fields(model, field_names) ==
    IF field_names = <<>> THEN <<>>
    ELSE LET n == field_names[Len(field_names)]
         IN DictSet(picked_fields(model,
                                  SubSeq(field_names, 1, Len(field_names) - 1)),
                    n, field_info_to_tuple(FieldInfoOf(model, n)))

\* Mutant of pick: the source is filtered, so fields come in source order.
pick_source_order(S, H, model_class, field_names, name, config) ==
    LET model == S[model_class]
        wanted == {field_names[i] : i \in 1..Len(field_names)}
        kept == SelectSeq(model.model_fields, LAMBDA f : f.name \in wanted)
    IN IF \E n \in wanted : n \notin FieldSetOf(model)
       THEN Failed(S, "ValueError")
       ELSE interface(S, H,
                      [i \in 1..Len(kept) |->
                          <<kept[i].name, field_info_to_tuple(kept[i].info)>>],
                      config, None, DefaultName(name, "Pick_", model),
                      None, None)

\* Mutant of pick: a name the source lacks is skipped, as omit does.
pick_skip_unknown(S, H, model_class, field_names, name, config) ==
    LET model == S[model_class]
        known == SelectSeq(field_names, LAMBDA n : n \in FieldSetOf(model))
    IN interface(S, H, picked_fields(model, known), config, None,
                 DefaultName(name, "Pick_", model), None, None)

pick(S, H, model_class, field_names, name, config) ==
    LET model == S[model_class]
    IN IF \E i \in 1..Len(field_names) :
             field_names[i] \notin FieldSetOf(model)
       THEN Failed(S, "ValueError")
       ELSE interface(S, H, picked_fields(model, field_names), config, None,
                      DefaultName(name, "Pick_", model), None, None)

\* Mutant of omit: with nothing to omit the source itself is returned.
omit_returns_source(S, H, model_class, field_names, name, config) ==
    LET model == S[model_class]
        omitted_set == {field_names[i] : i \in 1..Len(field_names)}
        kept == SelectSeq(model.model_fields,
                          LAMBDA f : f.name \notin omitted_set)
    IN IF field_names = <<>>
       THEN [schemas |-> S, ret |-> model_class, error |-> "none"]
       ELSE interface(S, H,
                      [i \in 1..Len(kept) |->
                          <<kept[i].name, field_info_to_tuple(kept[i].info)>>],
                      config, None, DefaultName(name, "Omit_", model),
                      None, None)

\* Mutant of omit: a name the source lacks is an error, as in pick.
omit_strict(S, H, model_class, field_names, name, config) ==
    LET model == S[model_class]
        omitted_set == {field_names[i] : i \in 1..Len(field_names)}
        kept == SelectSeq(model.model_fields,
                          LAMBDA f : f.name \notin omitted_set)
    IN IF \E n \in omitted_set : n \notin FieldSetOf(model)
       THEN Failed(S, "ValueError")
       ELSE interface(S, H,
                      [i \in 1..Len(kept) |->
                          <<kept[i].name, field_info_to_tuple(kept[i].info)>>],
                      config, None, DefaultName(name, "Omit_", model),
                      None, None)

omit(S, H, model_class, field_names, name, config) ==
    LET model == S[model_class]
        omitted_set == {field_names[i] : i \in 1..Len(field_names)}
        kept == SelectSeq(model.model_fields,
                          LAMBDA f : f.name \notin omitted_set)
    IN interface(S, H,
                 [i \in 1..Len(kept) |->
                     <<kept[i].name, field_info_to_tuple(kept[i].info)>>],
                 config, None, DefaultName(name, "Omit_", model), None, None)

\* Mutant of partial: the new Field carries the default only.
partial_default_only(S, H, model_class, name, config) ==
    LET model == S[model_class]
    IN interface(S, H,
                 [i \in 1..Len(model.model_fields) |->
                     <<model.model_fields[i].name,
                       [shape |-> "tuple",
                        pair |-> <<TypingOptional(
                                      model.model_fields[i].info.annotation),
                                   Field("default" :> None)>>]>>],
                 config, None, DefaultName(name, "Partial_", model),
                 None, None)

partial(S, H, model_class, name, config) ==
    LET model == S[model_class]
        new_field(field_info) ==
            LET annotation == IF field_info.annotation = None THEN typing_Any
                              ELSE field_info.annotation
                new_field_info ==
                    Field([default |-> None,
                           alias |-> field_info.alias,
                           title |-> field_info.title,
                           description |-> field_info.description])
            IN [shape |-> "tuple",
                pair |-> <<TypingOptional(annotation), new_field_info>>]
    IN interface(S, H,
                 [i \in 1..Len(model.model_fields) |->
                     <<model.model_fields[i].name,
                       new_field(model.model_fields[i].info)>>],
                 config, None, DefaultName(name, "Partial_", model),
                 None, None)

\* Mutant of required: the source's default is handed on to the new Field.
required_keep_default(S, H, model_class, name, config) ==
    LET model == S[model_class]
        new_field(field_info) ==
            [shape |-> "tuple",
             pair |-> <<field_info.annotation,
                        Field([default |-> field_info.default,
                               alias |-> field_info.alias,
                               title |-> field_info.title,
                               description |-> field_info.description])>>]
    IN interface(S, H,
                 [i \in 1..Len(model.model_fields) |->
                     <<model.model_fields[i].name,
                       new_field(model.model_fields[i].info)>>],
                 config, None, DefaultName(name, "Required_", model),
                 None, None)

required(S, H, model_class, name, config) ==
    LET model == S[model_class]
        new_field(field_info) ==
            LET annotation == IF field_info.annotation = None THEN typing_Any
                              ELSE field_info.annotation
                new_field_info ==
                    Field([alias |-> field_info.alias,
                           title |-> field_info.title,
                           description |-> field_info.description])
            IN [shape |-> "tuple", pair |-> <<annotation, new_field_info>>]
    IN interface(S, H,
                 [i \in 1..Len(model.model_fields) |->
                     <<model.model_fields[i].name,
                       new_field(model.model_fields[i].info)>>],
                 config, None, DefaultName(name, "Required_", model),
                 None, None)


\* One value of new_fields as extend leaves it for interface.
extend_field(H, field_def) ==
    CASE field_def.shape = "TyckType" ->
            [shape |-> "tuple", pair |-> build(H, field_def.ref)]
      [] field_def.shape = "model" ->
            [shape |-> "tuple",
             pair |-> <<[base |-> "model", ref |-> field_def.ref],
                        Ellipsis>>]
      [] OTHER -> field_def

RECURSIVE extend_fields(_, _, _)
extend_fields(H, merged_fields, new_fields) ==
    IF new_fields = <<>> THEN merged_fields
    ELSE LET k == Len(new_fields)
         IN DictSet(extend_fields(H, merged_fields,
                                  SubSeq(new_fields, 1, k - 1)),
                    new_fields[k][1], extend_field(H, new_fields[k][2]))

\* Mutant of extend: a name the base already has keeps the base's field.
extend_keep_base(S, H, base_model, new_fields, name, config) ==
    LET model == S[base_model]
        added == SelectSeq(new_fields,
                           LAMBDA f : f[1] \notin FieldSetOf(model))
        merged_fields ==
            [i \in 1..Len(model.model_fields) |->
                <<model.model_fields[i].name,
                  field_info_to_tuple(model.model_fields[i].info)>>]
    IN interface(S, H, extend_fields(H, merged_fields, added), config,
                 None, DefaultName(name, "Extended_", model), None, None)

extend(S, H, base_model, new_fields, name, config) ==
    LET model == S[base_model]
        merged_fields ==
            [i \in 1..Len(model.model_fields) |->
                <<model.model_fields[i].name,
                  field_info_to_tuple(model.model_fields[i].info)>>]
    IN interface(S, H, extend_fields(H, merged_fields, new_fields), config,
                 None, DefaultName(name, "Extended_", model), None, None)

\* '_'.join(names)
RECURSIVE join(_)
join(names) ==
    IF names = <<>> THEN ""
    ELSE IF Len(names) = 1 THEN names[1]
    ELSE names[1] \o "_" \o join(Tail(names))

\* merged_fields after the fields of one more class were written into it.
RECURSIVE merge_into(_, _)
merge_into(merged_fields, model_fields) ==
    IF model_fields = <<>> THEN merged_fields
    ELSE LET k == Len(model_fields)
         IN DictSet(merge_into(merged_fields, SubSeq(model_fields, 1, k - 1)),
                    model_fields[k].name,
                    field_info_to_tuple(model_fields[k].info))

RECURSIVE merged_fields_of(_, _)
merged_fields_of(S, model_classes) ==
    IF model_classes = <<>> THEN <<>>
    ELSE LET k == Len(model_classes)
         IN merge_into(merged_fields_of(S, SubSeq(model_classes, 1, k - 1)),
                       S[model_classes[k]].model_fields)

\* Mutant of merge: the first class that defines a name wins.
merge_first_wins(S, H, model_classes, name, config) ==
    LET reversed == [i \in 1..Len(model_classes) |->
                        model_classes[Len(model_classes) + 1 - i]]
        last_wins == merged_fields_of(S, model_classes)
        first_wins == merged_fields_of(S, reversed)
        cls_name == IF name = None
                    THEN Some("Merge_" \o join([i \in 1..Len(model_classes) |->
                                                   S[model_classes[i]].name]))
                    ELSE name
    IN interface(S, H,
                 [i \in 1..Len(last_wins) |->
                     LET j == CHOOSE j \in 1..Len(first_wins) :
                                 first_wins[j][1] = last_wins[i][1]
                     IN first_wins[j]],
                 config, None, cls_name, None, None)

merge(S, H, model_classes, name, config) ==
    LET cls_name == IF name = None
                    THEN Some("Merge_" \o join([i \in 1..Len(model_classes) |->
                                                   S[model_classes[i]].name]))
                    ELSE name
    IN interface(S, H, merged_fields_of(S, model_classes), config, None,
                 cls_name, None, None)

\* -------------------------------------------------- the validation engine
\* The key a field is populated by: its alias when it has one.
PopulationKey(field) ==
    IF field.info.alias # None THEN field.info.alias[1] ELSE field.name

IsRequired(field_info) == field_info.default = PydanticUndefined

\* model(**data) for data that supplies valid values under the keys in
\* `provided`: a required field that is not supplied is a ValidationError,
\* an absent field with a default reads its default.
model_init(model, provided) ==
    IF \E i \in 1..Len(model.model_fields) :
          /\ IsRequired(model.model_fields[i].info)
          /\ PopulationKey(model.model_fields[i]) \notin provided
    THEN [error |-> "ValidationError", defaulted |-> EmptyDict]
    ELSE [error |-> "none",
          defaulted |->
             [n \in {model.model_fields[i].name :
                        i \in {k \in 1..Len(model.model_fields) :
                                  PopulationKey(model.model_fields[k])
                                      \notin provided}} |->
                 FieldInfoOf(model, n).default]]

\* re.search(pattern, chars) for the pattern the model uses.
LOWER_PATTERN == "^[a-z]+$"

Matches(pattern, chars) ==
    CASE pattern = LOWER_PATTERN ->
            Len(chars) > 0 /\ \A i \in 1..Len(chars) : chars[i] = "a"

\* The validators of one kind that an annotation carries, in order.
ValidatorsOf(annotation, kind) ==
    IF annotation.base = "Annotated"
    THEN SelectSeq(annotation.validators, LAMBDA f : f.validator = kind)
    ELSE <<>>

\* Calling the function a validator wraps.
RECURSIVE apply_validators(_, _)
apply_validators(validators, v) ==
    IF validators = <<>> THEN v
    ELSE LET f == validators[1]
         IN apply_validators(
                Tail(validators),
                CASE f.fn = "string_transform" ->
                        string_transform(f.strip_ws, f.to_lower, f.to_upper,
                                         v))

\* Validation of one value for a str field: the before-validators rewrite
\* the input, the result must be a str within the field's length bounds
\* that matches its pattern, the after-validators rewrite what is stored.
validate_field(field_info, v) ==
    LET before == ValidatorsOf(field_info.annotation, "BeforeValidator")
        after == ValidatorsOf(field_info.annotation, "AfterValidator")
        v1 == apply_validators(before, v)
        ok == /\ v1.type = "str"
              /\ field_info.min_length # None
                    => Len(v1.chars) >= field_info.min_length[1]
              /\ field_info.max_length # None
                    => Len(v1.chars) <= field_info.max_length[1]
              /\ field_info.pattern # None
                    => Matches(field_info.pattern[1], v1.chars)
    IN IF ok THEN [error |-> "none", value |-> apply_validators(after, v1)]
       ELSE [error |-> "ValidationError", value |-> v]

\* Values of the other types: None, a float (finite n, an infinity or NaN)
\* and a list of values.
NoneValue == [type |-> "NoneType"]

FloatValue(kind, n) == [type |-> "float", kind |-> kind, n |-> n]

ListValue(items) == [type |-> "list", items |-> items]

Accepted(v) == [error |-> "none", value |-> v]

Refused(v) == [error |-> "ValidationError", value |-> v]

math_isinf(v) == v.kind \in {"inf", "-inf"}

math_isnan(v) == v.kind = "nan"

\* The closure check_finite of NumberValidator.build.
\* Mutant: math.isinf alone.
check_finite_inf_only(v) ==
    IF v.type = "float" /\ math_isinf(v) THEN Refused(v) ELSE Accepted(v)

check_finite(v) ==
    IF v.type = "float" /\ (math_isinf(v) \/ math_isnan(v))
    THEN Refused(v)
    ELSE Accepted(v)

\* hash(v): a list has none (TypeError).
Hashable(v) == v.type # "list"

\* The O(n^2) comparison of check_unique.
HasEqualPair(items) ==
    \E i, j \in 1..Len(items) : i < j /\ items[i] = items[j]

\* The closure check_unique of ArrayValidator.build: len(v) != len(set(v)),
\* and the pairwise comparison when set(v) raises TypeError.
\* Mutant: without the pairwise comparison.
check_unique_hashable_only(v) ==
    IF v.type = "list"
    THEN IF \A i \in 1..Len(v.items) : Hashable(v.items[i])
         THEN IF Len(v.items)
                    # Cardinality({v.items[i] : i \in 1..Len(v.items)})
              THEN Refused(v)
              ELSE Accepted(v)
         ELSE Accepted(v)
    ELSE Accepted(v)

check_unique(v) ==
    IF v.type = "list"
    THEN IF \A i \in 1..Len(v.items) : Hashable(v.items[i])
         THEN IF Len(v.items)
                    # Cardinality({v.items[i] : i \in 1..Len(v.items)})
              THEN Refused(v)
              ELSE Accepted(v)
         ELSE IF HasEqualPair(v.items) THEN Refused(v) ELSE Accepted(v)
    ELSE Accepted(v)

\* AfterValidator functions in order; the first that raises ends the run.
RECURSIVE run_after(_, _)
run_after(validators, v) ==
    IF validators = <<>> THEN Accepted(v)
    ELSE LET f == validators[1]
             r == CASE f.fn = "check_unique" -> check_unique(v)
                    [] f.fn = "check_finite" -> check_finite(v)
                    [] f.fn = "string_transform" ->
                         Accepted(string_transform(f.strip_ws, f.to_lower,
                                                   f.to_upper, v))
         IN IF r.error # "none" THEN r
            ELSE run_after(Tail(validators), r.value)

\* Validation of a value against an annotation: the before-validators of
\* Annotated, the type itself (items of a List one by one), then the
\* after-validators.
RECURSIVE validate_type(_, _)
validate_type(annotation, v) ==
    CASE annotation.base = "Annotated" ->
            LET v1 == apply_validators(
                          ValidatorsOf(annotation, "BeforeValidator"), v)
                inner == validate_type(annotation.arg, v1)
            IN IF inner.error # "none" THEN Refused(v)
               ELSE LET r == run_after(
                                 ValidatorsOf(annotation, "AfterValidator"),
                                 inner.value)
                    IN IF r.error # "none" THEN Refused(v) ELSE r
      [] annotation.base = "str" ->
            IF v.type = "str" THEN Accepted(v) ELSE Refused(v)
      [] annotation.base = "float" ->
            IF v.type = "float" THEN Accepted(v) ELSE Refused(v)
      [] annotation.base = "int" ->
            IF v.type = "float" /\ v.kind = "finite" THEN Accepted(v)
            ELSE Refused(v)
      [] annotation.base = "Optional" ->
            IF v = NoneValue THEN Accepted(v)
            ELSE validate_type(annotation.arg, v)
      [] annotation.base = "List" ->
            IF v.type # "list" THEN Refused(v)
            ELSE LET each == [i \in 1..Len(v.items) |->
                                 validate_type(annotation.arg, v.items[i])]
                 IN IF \E i \in 1..Len(each) : each[i].error # "none"
                    THEN Refused(v)
                    ELSE Accepted(ListValue(
                             [i \in 1..Len(each) |-> each[i].value]))

\* len(v) of a str or a list.
LenOf(v) == IF v.type = "str" THEN Len(v.chars) ELSE Len(v.items)

\* v > bound on floats: an infinity compares as the largest or smallest
\* number, every comparison with NaN is false.
Greater(v, bound) ==
    \/ v.kind = "inf"
    \/ v.kind = "finite" /\ v.n > bound

Less(v, bound) ==
    \/ v.kind = "-inf"
    \/ v.kind = "finite" /\ v.n < bound

Equals(v, bound) == v.kind = "finite" /\ v.n = bound

\* The constraints of Field(...) on a value of the field's type.
meets_constraints(field_info, v) ==
    /\ (field_info.min_length # None /\ v.type \in {"str", "list"})
          => LenOf(v) >= field_info.min_length[1]
    /\ (field_info.max_length # None /\ v.type \in {"str", "list"})
          => LenOf(v) <= field_info.max_length[1]
    /\ (field_info.pattern # None /\ v.type = "str")
          => Matches(field_info.pattern[1], v.chars)
    /\ (field_info.gt # None /\ v.type = "float")
          => Greater(v, field_info.gt[1])
    /\ (field_info.ge # None /\ v.type = "float")
          => Greater(v, field_info.ge[1]) \/ Equals(v, field_info.ge[1])
    /\ (field_info.lt # None /\ v.type = "float")
          => Less(v, field_info.lt[1])
    /\ (field_info.le # None /\ v.type = "float")
          => Less(v, field_info.le[1]) \/ Equals(v, field_info.le[1])

\* Validation of one value for a field of any type: the annotation with its
\* validators, and the constraints of the field's FieldInfo.
validate_value(field_info, v) ==
    LET typed == validate_type(field_info.annotation, v)
    IN IF typed.error = "none" /\ meets_constraints(field_info, typed.value)
       THEN typed
       ELSE Refused(v)

\* ------------------------------------------------------------------- Init
\* The record of one call of the schema layer, before any was made.
NoCall ==
    [op |-> "none", src |-> 0, names |-> <<>>, fields |-> <<>>,
     name |-> None, config |-> None, validators |-> None, base |-> None,
     srcs |-> <<>>, ret |-> 0, error |-> "none"]

Init ==
    /\ builders = <<StringValidator_init(1), NumberValidator_init(2, FALSE)>>
    /\ dicts = <<EmptyDict, EmptyDict>>
    /\ lists = <<>>
    /\ calls = <<>>
    /\ schemas = <<>>
    /\ derivs = <<>>
    /\ last = NoCall

\* One public call on a builder: r is what the method computes on Heap.
Call(op, self, args, r) ==
    /\ Len(builders) < MaxBuilders
    /\ builders' = r.H.builders
    /\ dicts' = r.H.dicts
    /\ lists' = r.H.lists
    /\ calls' = Append(calls, [op |-> op, recv |-> self, args |-> args,
                               ret |-> r.ret])
    /\ UNCHANGED <<schemas, derivs, last>>

Default == \E self \in AllRefs, v \in DefaultValues :
    Call("default", self, <<v>>, TyckType_default(Heap, self, v))

Optional == \E self \in AllRefs :
    Call("optional", self, <<>>, TyckType_optional(Heap, self))

Alias == \E self \in AllRefs, n \in AliasValues :
    Call("alias", self, <<n>>, TyckType_alias(Heap, self, n))

Description == \E self \in AllRefs :
    Call("description", self, <<"ds">>, TyckType_description(Heap, self, "ds"))

Title == \E self \in AllRefs :
    Call("title", self, <<"ti">>, TyckType_title(Heap, self, "ti"))

Examples == \E self \in AllRefs, vs \in ExampleTuples :
    Call("examples", self, vs, TyckType_examples(Heap, self, vs))

Deprecated == \E self \in AllRefs :
    Call("deprecated", self, <<TRUE>>, TyckType_deprecated(Heap, self, TRUE))

StringMin == \E self \in RefsOf("StringValidator"), n \in Lengths :
    Call("min", self, <<n>>, StringValidator_min(Heap, self, n))

StringMax == \E self \in RefsOf("StringValidator"), n \in Lengths :
    Call("max", self, <<n>>, StringValidator_max(Heap, self, n))

StringLength == \E self \in RefsOf("StringValidator"), n \in Lengths :
    Call("length", self, <<n>>, StringValidator_length(Heap, self, n))

StringEmail == \E self \in RefsOf("StringValidator") :
    Call("email", self, <<>>, StringValidator_email(Heap, self))

StringUrl == \E self \in RefsOf("StringValidator") :
    Call("url", self, <<>>, StringValidator_url(Heap, self))

StringUuid == \E self \in RefsOf("StringValidator") :
    Call("uuid", self, <<>>, StringValidator_uuid(Heap, self))

StringPattern == \E self \in RefsOf("StringValidator") :
    Call("pattern", self, <<"r1">>, StringValidator_pattern(Heap, self, "r1"))

StringDatetime == \E self \in RefsOf("StringValidator") :
    Call("datetime", self, <<>>, StringValidator_datetime(Heap, self))

StringDate == \E self \in RefsOf("StringValidator") :
    Call("date", self, <<>>, StringValidator_date(Heap, self))

StringTime == \E self \in RefsOf("StringValidator") :
    Call("time", self, <<>>, StringValidator_time(Heap, self))

StringIp == \E self \in RefsOf("StringValidator"), v \in IpVersions :
    Call("ip", self, <<v>>, StringValidator_ip(Heap, self, v))

StringJson == \E self \in RefsOf("StringValidator") :
    Call("json", self, <<>>, StringValidator_json(Heap, self))

StringStrip == \E self \in RefsOf("StringValidator") :
    Call("strip", self, <<>>, StringValidator_strip(Heap, self))

StringLower == \E self \in RefsOf("StringValidator") :
    Call("lower", self, <<>>, StringValidator_lower(Heap, self))

StringUpper == \E self \in RefsOf("StringValidator") :
    Call("upper", self, <<>>, StringValidator_upper(Heap, self))

NumberInteger == \E self \in RefsOf("NumberValidator") :
    Call("integer", self, <<>>, NumberValidator_integer(Heap, self))

NumberGt == \E self \in RefsOf("NumberValidator"), v \in Bounds :
    Call("gt", self, <<v>>, NumberValidator_gt(Heap, self, v))

NumberGte == \E self \in RefsOf("NumberValidator"), v \in Bounds :
    Call("gte", self, <<v>>, NumberValidator_gte(Heap, self, v))

NumberLt == \E self \in RefsOf("NumberValidator"), v \in Bounds :
    Call("lt", self, <<v>>, NumberValidator_lt(Heap, self, v))

NumberLte == \E self \in RefsOf("NumberValidator"), v \in Bounds :
    Call("lte", self, <<v>>, NumberValidator_lte(Heap, self, v))

NumberRange == \E self \in RefsOf("NumberValidator"), ac \in RangeArgs :
    Call("range", self, ac, NumberValidator_range(Heap, self, ac[1], ac[2]))

NumberPositive == \E self \in RefsOf("NumberValidator") :
    Call("positive", self, <<>>, NumberValidator_positive(Heap, self))

NumberNonNegative == \E self \in RefsOf("NumberValidator") :
    Call("non_negative", self, <<>>, NumberValidator_non_negative(Heap, self))

NumberNegative == \E self \in RefsOf("NumberValidator") :
    Call("negative", self, <<>>, NumberValidator_negative(Heap, self))

NumberNonPositive == \E self \in RefsOf("NumberValidator") :
    Call("non_positive", self, <<>>, NumberValidator_non_positive(Heap, self))

NumberFinite == \E self \in RefsOf("NumberValidator") :
    Call("finite", self, <<>>, NumberValidator_finite(Heap, self))

NumberMultipleOf == \E self \in RefsOf("NumberValidator") :
    Call("multiple_of", self, <<2>>, NumberValidator_multiple_of(Heap, self, 2))

ArrayFactory == \E item \in AllRefs :
    Call("array", item, <<>>, array(Heap, item))

ArrayMin == \E self \in RefsOf("ArrayValidator"), n \in Lengths :
    Call("min", self, <<n>>, ArrayValidator_min(Heap, self, n))

ArrayMax == \E self \in RefsOf("ArrayValidator"), n \in Lengths :
    Call("max", self, <<n>>, ArrayValidator_max(Heap, self, n))

ArrayLength == \E self \in RefsOf("ArrayValidator"), n \in Lengths :
    Call("length", self, <<n>>, ArrayValidator_length(Heap, self, n))

ArrayUnique == \E self \in RefsOf("ArrayValidator") :
    Call("unique", self, <<>>, ArrayValidator_unique(Heap, self))

Next ==
    \/ Default \/ Optional \/ Alias \/ Description \/ Title \/ Examples
    \/ Deprecated
    \/ StringMin \/ StringMax \/ StringLength \/ StringEmail \/ StringUrl
    \/ StringUuid \/ StringPattern \/ StringDatetime \/ StringDate
    \/ StringTime \/ StringIp \/ StringJson \/ StringStrip \/ StringLower
    \/ StringUpper
    \/ NumberInteger \/ NumberGt \/ NumberGte \/ NumberLt \/ NumberLte
    \/ NumberRange \/ NumberPositive \/ NumberNonNegative \/ NumberNegative
    \/ NumberNonPositive \/ NumberFinite \/ NumberMultipleOf
    \/ ArrayFactory \/ ArrayMin \/ ArrayMax \/ ArrayLength \/ ArrayUnique

Spec == Init /\ [][Next]_vars

\* ------------------------------------------------- schema algebra: states
FieldNames == {"a", "b", "c"}

\* The builders the schemas are defined from:
\*   A = string.min(2).max(5).pattern("r1").alias("al").description("ds")
\*   B = number.gt(0).default("dv")
\*   C = string.optional().title("ti")
InitHeap ==
    [builders |-> <<StringValidator_init(1), NumberValidator_init(2, FALSE)>>,
     dicts |-> <<EmptyDict, EmptyDict>>,
     lists |-> <<>>]

LibA1 == StringValidator_min(InitHeap, string, 2)
LibA2 == StringValidator_max(LibA1.H, LibA1.ret, 5)
LibA3 == StringValidator_pattern(LibA2.H, LibA2.ret, "r1")
LibA4 == TyckType_alias(LibA3.H, LibA3.ret, "al")
LibA5 == TyckType_description(LibA4.H, LibA4.ret, "ds")
LibB1 == NumberValidator_gt(LibA5.H, number, 0)
LibB2 == TyckType_default(LibB1.H, LibB1.ret, Some("dv"))
LibC1 == TyckType_optional(LibB2.H, string)
LibC2 == TyckType_title(LibC1.H, LibC1.ret, "ti")

LibraryHeap == LibC2.H

LibraryCalls ==
    <<[op |-> "min", recv |-> string, args |-> <<2>>, ret |-> LibA1.ret],
      [op |-> "max", recv |-> LibA1.ret, args |-> <<5>>, ret |-> LibA2.ret],
      [op |-> "pattern", recv |-> LibA2.ret, args |-> <<"r1">>, ret |-> LibA3.ret],
      [op |-> "alias", recv |-> LibA3.ret, args |-> <<"al">>, ret |-> LibA4.ret],
      [op |-> "description", recv |-> LibA4.ret, args |-> <<"ds">>,
       ret |-> LibA5.ret],
      [op |-> "gt", recv |-> number, args |-> <<0>>, ret |-> LibB1.ret],
      [op |-> "default", recv |-> LibB1.ret, args |-> <<Some("dv")>>,
       ret |-> LibB2.ret],
      [op |-> "optional", recv |-> string, args |-> <<>>, ret |-> LibC1.ret],
      [op |-> "title", recv |-> LibC1.ret, args |-> <<"ti">>, ret |-> LibC2.ret]>>

\* Two definitions of field "a" that differ in constraints only.
Variants == {"constrained", "plain"}

FieldDef(field_name, variant) ==
    [shape |-> "TyckType",
     ref |-> CASE field_name = "a" ->
                    IF variant = "constrained" THEN LibA5.ret ELSE string
               [] field_name = "b" -> LibB2.ret
               [] field_name = "c" -> LibC2.ret]

\* Every insertion order of every subset of the field names.
Orders ==
    {o \in UNION {[1..n -> FieldNames] : n \in 0..Cardinality(FieldNames)} :
        \A i, j \in 1..Len(o) : i # j => o[i] # o[j]}

Mappings ==
    {[i \in 1..Len(o) |-> <<o[i], FieldDef(o[i], v)>>] :
        o \in Orders, v \in Variants}

\* interface(fields) for every mapping, interface(fields, name="User") for
\* the constrained mappings written in sorted order.
InterfaceCalls ==
    {<<fields, None>> : fields \in Mappings}
    \cup {<<fields, Some("User")>> :
             fields \in {[i \in 1..Len(o) |->
                            <<o[i], FieldDef(o[i], "constrained")>>] :
                            o \in {sorted(K) : K \in SUBSET FieldNames}}}

\* The *field_names of pick and omit: up to two names in either order.
NameTuples == {o \in Orders : Len(o) <= 2}

InitAlgebra ==
    /\ builders = LibraryHeap.builders
    /\ dicts = LibraryHeap.dicts
    /\ lists = LibraryHeap.lists
    /\ calls = LibraryCalls
    /\ schemas = <<>>
    /\ derivs = <<>>
    /\ last = NoCall

\* One call of the schema layer: r is what the function computes.  A call
\* that raises leaves no class behind, and nothing catches the exception:
\* the run ends there.
SchemaCall(call, r) ==
    LET done == [call EXCEPT !.ret = r.ret, !.error = r.error]
    IN /\ Len(schemas) < MaxSchemas
       /\ last.error = "none"
       /\ schemas' = r.schemas
       /\ derivs' = IF r.error = "none" THEN Append(derivs, done) ELSE derivs
       /\ last' = done
       /\ UNCHANGED <<builders, dicts, lists, calls>>

Interface == \E call \in InterfaceCalls :
    SchemaCall([NoCall EXCEPT !.op = "interface", !.fields = call[1],
                              !.name = call[2]],
               interface(schemas, Heap, call[1], None, None, call[2], None,
                         None))

Pick == \E src \in 1..Len(schemas), field_names \in NameTuples :
    SchemaCall([NoCall EXCEPT !.op = "pick", !.src = src,
                              !.names = field_names],
               pick(schemas, Heap, src, field_names, None, None))

Omit == \E src \in 1..Len(schemas), field_names \in NameTuples :
    SchemaCall([NoCall EXCEPT !.op = "omit", !.src = src,
                              !.names = field_names],
               omit(schemas, Heap, src, field_names, None, None))

Partial == \E src \in 1..Len(schemas) :
    SchemaCall([NoCall EXCEPT !.op = "partial", !.src = src],
               partial(schemas, Heap, src, None, None))

Required == \E src \in 1..Len(schemas) :
    SchemaCall([NoCall EXCEPT !.op = "required", !.src = src],
               required(schemas, Heap, src, None, None))

NextAlgebra == Interface \/ Pick \/ Omit \/ Partial \/ Required

SpecAlgebra == InitAlgebra /\ [][NextAlgebra]_vars

\* ------------------------------------------ schema algebra: chains of calls
\* Derivations of derivations and merges need three classes; the mappings
\* are few: two that define "a" differently, one field, and no field.
ChainMappings ==
    {<<<<"a", FieldDef("a", "constrained")>>, <<"b", FieldDef("b", "plain")>>>>,
     <<<<"c", FieldDef("c", "plain")>>, <<"a", FieldDef("a", "plain")>>>>,
     <<<<"b", FieldDef("b", "plain")>>>>,
     <<>>}

\* new_fields of extend: the mappings above and one that gives "a" as the
\* raw type str.
NewFieldMappings ==
    ChainMappings \cup {<<<<"a", [shape |-> "type", type |-> [base |-> "str"]]>>>>}

\* config=: not given, or config(frozen=True).
ConfigArgs == {None, Some({"frozen"})}

ChainNameTuples == {<<>>, <<"b">>, <<"b", "a">>}

\* *model_classes of merge: none, one, or two of the classes there are.
MergeSources(n) == UNION {[1..k -> 1..n] : k \in 0..2}

ChainCall(call, r) ==
    LET done == [call EXCEPT !.ret = r.ret, !.error = r.error]
    IN /\ Len(schemas) < MaxChain
       /\ last.error = "none"
       /\ schemas' = r.schemas
       /\ derivs' = IF r.error = "none" THEN Append(derivs, done) ELSE derivs
       /\ last' = done
       /\ UNCHANGED <<builders, dicts, lists, calls>>

ChainInterface == \E fields \in ChainMappings :
    ChainCall([NoCall EXCEPT !.op = "interface", !.fields = fields],
              interface(schemas, Heap, fields, None, None, None, None, None))

ChainPick == \E src \in 1..Len(schemas), field_names \in ChainNameTuples :
    ChainCall([NoCall EXCEPT !.op = "pick", !.src = src,
                             !.names = field_names],
              pick(schemas, Heap, src, field_names, None, None))

ChainOmit == \E src \in 1..Len(schemas), field_names \in ChainNameTuples :
    ChainCall([NoCall EXCEPT !.op = "omit", !.src = src,
                             !.names = field_names],
              omit(schemas, Heap, src, field_names, None, None))

ChainPartial == \E src \in 1..Len(schemas), config \in ConfigArgs :
    ChainCall([NoCall EXCEPT !.op = "partial", !.src = src,
                             !.config = config],
              partial(schemas, Heap, src, None, config))

ChainRequired == \E src \in 1..Len(schemas) :
    ChainCall([NoCall EXCEPT !.op = "required", !.src = src],
              required(schemas, Heap, src, None, None))

ChainExtend == \E src \in 1..Len(schemas), new_fields \in NewFieldMappings :
    ChainCall([NoCall EXCEPT !.op = "extend", !.src = src,
                             !.fields = new_fields],
              extend(schemas, Heap, src, new_fields, None, None))

ChainMerge == \E model_classes \in MergeSources(Len(schemas)) :
    ChainCall([NoCall EXCEPT !.op = "merge", !.srcs = model_classes],
              merge(schemas, Heap, model_classes, None, None))

NextChain ==
    \/ ChainInterface \/ ChainPick \/ ChainOmit \/ ChainPartial
    \/ ChainRequired \/ ChainExtend \/ ChainMerge

SpecChain == InitAlgebra /\ [][NextChain]_vars

\* ------------------------------------------- interface: shapes and options
str == [base |-> "str"]

\* The definitions of one field, one of every shape interface() tells
\* apart; n is the number of classes there are to name as a nested model.
\*   a builder, a FieldInfo, a (type, FieldInfo) pair, a nested model,
\*   a raw type, a bare default value, and a tuple of three items.
ShapeDefs(n) ==
    {FieldDef("a", "constrained"),
     [shape |-> "FieldInfo", info |-> Field([description |-> Some("ds")])],
     [shape |-> "tuple", pair |-> <<str, Field([min_length |-> Some(2)])>>],
     [shape |-> "type", type |-> str],
     [shape |-> "value", value |-> "dv"],
     [shape |-> "tuple",
      pair |-> <<str, Field([min_length |-> Some(2)]), "extra">>]}
    \cup {[shape |-> "model", ref |-> i] : i \in 1..n}

\* One field "a" of every shape, and "a" next to a builder-defined "b", in
\* both insertion orders.
ShapeMappings(n) ==
    UNION {{<<<<"a", def>>>>,
            <<<<"a", def>>, <<"b", FieldDef("b", "plain")>>>>,
            <<<<"b", FieldDef("b", "plain")>>, <<"a", def>>>>} :
           def \in ShapeDefs(n)}

\* validators=: not given, or one function for field "a".
ValidatorArgs == {None, Some({"check_a"})}

\* base=: not given, or one of the n classes there are.
BaseArgs(n) == {None} \cup {Some(i) : i \in 1..n}

InterfaceShapes == \E fields \in ShapeMappings(Len(schemas)) :
    SchemaCall([NoCall EXCEPT !.op = "interface", !.fields = fields],
               interface(schemas, Heap, fields, None, None, None, None, None))

InterfaceOptions ==
    \E config \in ConfigArgs, validators \in ValidatorArgs,
       base \in BaseArgs(Len(schemas)) :
        LET fields == <<<<"c", FieldDef("c", "plain")>>>>
        IN SchemaCall([NoCall EXCEPT !.op = "interface", !.fields = fields,
                                     !.config = config,
                                     !.validators = validators,
                                     !.base = base],
                      interface(schemas, Heap, fields, config, validators,
                                None, base, None))

\* Mappings of plain string fields under names with and without '_'.
NameMappings ==
    {<<<<"a_b", [shape |-> "TyckType", ref |-> string]>>>>,
     <<<<"a", [shape |-> "TyckType", ref |-> string]>>,
       <<"b", [shape |-> "TyckType", ref |-> string]>>>>,
     <<<<"b", [shape |-> "TyckType", ref |-> string]>>,
       <<"a", [shape |-> "TyckType", ref |-> string]>>>>,
     <<<<"a_b", [shape |-> "TyckType", ref |-> string]>>,
       <<"c", [shape |-> "TyckType", ref |-> string]>>>>,
     <<<<"c", [shape |-> "TyckType", ref |-> string]>>,
       <<"b", [shape |-> "TyckType", ref |-> string]>>,
       <<"a", [shape |-> "TyckType", ref |-> string]>>>>}

InterfaceNames == \E fields \in NameMappings :
    SchemaCall([NoCall EXCEPT !.op = "interface", !.fields = fields],
               interface(schemas, Heap, fields, None, None, None, None, None))

NextInterface == InterfaceShapes \/ InterfaceOptions \/ InterfaceNames

SpecInterface == InitAlgebra /\ [][NextInterface]_vars

\* -------------------------------------------- string transforms: one script
\* Schema = interface({'a': string.<chain>}); Schema(a=<input>)
Chars == {" ", "a", "A"}

InputValues ==
    {StrValue(chars) : chars \in UNION {[1..n -> Chars] : n \in 0..MaxStrLen}}
    \cup {[type |-> "int", n |-> 7]}

\* The calls of T once each, in every order.
Orderings(T) ==
    {t \in [1..Cardinality(T) -> T] :
        \A i, j \in 1..Cardinality(T) : i # j => t[i] # t[j]}

\* strip, lower, upper in any selection and order, then no constraint or
\* min and pattern.
TransformChains ==
    {t \o c :
        t \in UNION {Orderings(T) : T \in SUBSET {"strip", "lower", "upper"}},
        c \in {<<>>, <<"min", "pattern">>}}

\* One call of the chain on builder self.
ChainStep(H, self, op) ==
    CASE op = "strip" -> StringValidator_strip(H, self)
      [] op = "lower" -> StringValidator_lower(H, self)
      [] op = "upper" -> StringValidator_upper(H, self)
      [] op = "min" -> StringValidator_min(H, self, 2)
      [] op = "pattern" -> StringValidator_pattern(H, self, LOWER_PATTERN)

ChainArgs(op) ==
    CASE op = "min" -> <<2>>
      [] op = "pattern" -> <<LOWER_PATTERN>>
      [] OTHER -> <<>>

\* string.<ops>: the heap, the last builder and the calls made.
RECURSIVE Chain(_, _)
Chain(H, ops) ==
    IF ops = <<>> THEN [H |-> H, ret |-> string, calls |-> <<>>]
    ELSE LET k == Len(ops)
             before == Chain(H, SubSeq(ops, 1, k - 1))
             r == ChainStep(before.H, before.ret, ops[k])
         IN [H |-> r.H, ret |-> r.ret,
             calls |-> Append(before.calls,
                              [op |-> ops[k], recv |-> before.ret,
                               args |-> ChainArgs(ops[k]), ret |-> r.ret])]

NoValidation ==
    [op |-> "none", chain |-> <<>>, input |-> StrValue(<<>>),
     error |-> "none", value |-> StrValue(<<>>)]

InitTransform ==
    /\ builders = <<StringValidator_init(1), NumberValidator_init(2, FALSE)>>
    /\ dicts = <<EmptyDict, EmptyDict>>
    /\ lists = <<>>
    /\ calls = <<>>
    /\ schemas = <<>>
    /\ derivs = <<>>
    /\ last = NoValidation

Validate == \E ops \in TransformChains, input \in InputValues :
    LET c == Chain(Heap, ops)
        fields == <<<<"a", [shape |-> "TyckType", ref |-> c.ret]>>>>
        r == interface(schemas, c.H, fields, None, None, None, None, None)
        outcome == validate_field(FieldInfoOf(r.schemas[r.ret], "a"),
                                  input)
    IN /\ last.op = "none"
       /\ builders' = c.H.builders
       /\ dicts' = c.H.dicts
       /\ lists' = c.H.lists
       /\ calls' = calls \o c.calls
       /\ schemas' = r.schemas
       /\ derivs' = Append(derivs, [NoCall EXCEPT !.op = "interface",
                                                   !.fields = fields,
                                                   !.ret = r.ret])
       /\ last' = [op |-> "validate", chain |-> ops, input |-> input,
                   error |-> outcome.error, value |-> outcome.value]

NextTransform == Validate

SpecTransform == InitTransform /\ [][NextTransform]_vars

\* ------------------------------------- validation of numbers and containers
\* Schema = interface({'a': <builder>}); Schema(a=<input>), for an array, a
\* number and a container around a constrained child.
Elements(nested) ==
    IF nested
    THEN {ListValue(<<>>), ListValue(<<StrValue(<<"a">>)>>),
          ListValue(<<StrValue(<<"b">>)>>)}
    ELSE {StrValue(<<"a">>), StrValue(<<"b">>)}

ListsOf(elements) ==
    {ListValue(items) :
        items \in UNION {[1..n -> elements] : n \in 0..MaxListLen}}

\* The schema of one field "a" defined by builder ref, and the verdict on
\* one input.
ValidateWith(H, ref, input) ==
    LET fields == <<<<"a", [shape |-> "TyckType", ref |-> ref]>>>>
        r == interface(schemas, H, fields, None, None, None, None, None)
    IN [fields |-> fields, r |-> r,
        outcome |-> validate_value(FieldInfoOf(r.schemas[r.ret], "a"),
                                   input)]

Validated(H, run, record) ==
    /\ last.op = "none"
    /\ builders' = H.builders
    /\ dicts' = H.dicts
    /\ lists' = H.lists
    /\ calls' = calls
    /\ schemas' = run.r.schemas
    /\ derivs' = Append(derivs, [NoCall EXCEPT !.op = "interface",
                                                !.fields = run.fields,
                                                !.ret = run.r.ret])
    /\ last' = record @@ [error |-> run.outcome.error,
                          value |-> run.outcome.value]

\* array(string) or array(array(string)), with unique() or without.
ValidateArray ==
    \E nested \in BOOLEAN, unique \in BOOLEAN :
    \E input \in ListsOf(Elements(nested)) :
        LET item == IF nested THEN array(Heap, string)
                    ELSE [H |-> Heap, ret |-> string]
            arr == array(item.H, item.ret)
            b == IF unique THEN ArrayValidator_unique(arr.H, arr.ret)
                 ELSE arr
        IN Validated(b.H, ValidateWith(b.H, b.ret, input),
                     [op |-> "validate_array", nested |-> nested,
                      unique |-> unique, input |-> input])

\* number chains: integer(), gt(0), lte(3) in any selection, finite() called
\* first, last or not at all.
NumberChains ==
    {pre \o SelectSeq(<<"integer", "gt", "lte">>, LAMBDA op : op \in T)
         \o post :
        T \in SUBSET {"integer", "gt", "lte"},
        pre \in {<<>>, <<"finite">>},
        post \in {<<>>, <<"finite">>}}

NumberStep(H, self, op) ==
    CASE op = "integer" -> NumberValidator_integer(H, self)
      [] op = "finite" -> NumberValidator_finite(H, self)
      [] op = "gt" -> NumberValidator_gt(H, self, 0)
      [] op = "lte" -> NumberValidator_lte(H, self, 3)

RECURSIVE NumberChain(_, _)
NumberChain(H, ops) ==
    IF ops = <<>> THEN [H |-> H, ret |-> number]
    ELSE LET before == NumberChain(H, SubSeq(ops, 1, Len(ops) - 1))
         IN NumberStep(before.H, before.ret, ops[Len(ops)])

NumberInputs ==
    {FloatValue("finite", n) : n \in -1..MaxNumber}
    \cup {FloatValue("inf", 0), FloatValue("-inf", 0), FloatValue("nan", 0)}

ValidateNumber ==
    \E ops \in NumberChains, input \in NumberInputs :
        LET b == NumberChain(Heap, ops)
        IN Validated(b.H, ValidateWith(b.H, b.ret, input),
                     [op |-> "validate_number", chain |-> ops,
                      input |-> input])

\* A child builder that refuses some values, and values for it.
Children == {"string.min(2)", "string.max(2)", "string.pattern", "number.gt(0)",
             "number.finite()", "string.strip().lower()"}

Child(H, child) ==
    CASE child = "string.min(2)" -> StringValidator_min(H, string, 2)
      [] child = "string.max(2)" -> StringValidator_max(H, string, 2)
      [] child = "string.pattern" ->
            StringValidator_pattern(H, string, LOWER_PATTERN)
      [] child = "number.gt(0)" -> NumberValidator_gt(H, number, 0)
      [] child = "number.finite()" -> NumberValidator_finite(H, number)
      [] child = "string.strip().lower()" ->
            LET s1 == StringValidator_strip(H, string)
            IN StringValidator_lower(s1.H, s1.ret)

ChildInputs(child) ==
    IF child \in {"number.gt(0)", "number.finite()"}
    THEN {FloatValue("finite", 0), FloatValue("finite", 1),
          FloatValue("inf", 0)}
    ELSE {StrValue(chars) :
             chars \in UNION {[1..n -> {"a", "A"}] : n \in 1..MaxStrLen}}

Containers == {"array", "optional"}

\* array(X) given [e], optional(X) given e, next to X alone given e.
ValidateContainer ==
    \E container \in Containers, child \in Children :
    \E e \in ChildInputs(child) :
        LET x == Child(Heap, child)
            c == IF container = "array" THEN array(x.H, x.ret)
                 ELSE optional(x.H, x.ret)
            input == IF container = "array" THEN ListValue(<<e>>) ELSE e
            alone == build(x.H, x.ret)
            info == [alone[2] EXCEPT !.annotation = alone[1]]
        IN Validated(c.H, ValidateWith(c.H, c.ret, input),
                     [op |-> "validate_container", container |-> container,
                      child |-> child, element |-> e, input |-> input,
                      alone |-> validate_value(info, e)])

NextValidate == ValidateArray \/ ValidateNumber \/ ValidateContainer

SpecValidate == InitTransform /\ [][NextValidate]_vars

\* -------------------------------------- legacy builders (tyck.core) and
\* the module-level singletons
\* TypeBuilder.__init__ and StringBuilder.__init__ of tyck.core.builders.
TypeBuilder_init ==
    [default |-> PydanticUndefined, alias |-> None, description |-> None,
     title |-> None, examples |-> None, deprecated |-> FALSE]

StringBuilder_init ==
    TypeBuilder_init @@
    [cls |-> "StringBuilder", min_length |-> None, max_length |-> None,
     pattern |-> None, format |-> None, strip_whitespace |-> FALSE,
     to_lower |-> FALSE, to_upper |-> FALSE]

\* tyck.core.types_.String is builder 3.
core_String == 3

\* TypeBuilder._clone: copy.copy(self).
TypeBuilder_clone(H, self) ==
    [H |-> [H EXCEPT !.builders = Append(@, H.builders[self])],
     ret |-> Len(H.builders) + 1]

TypeBuilder_default(H, self, value) ==
    SetAttr(TypeBuilder_clone(H, self), "default", value)

StringBuilder_min(H, self, length) ==
    SetAttr(TypeBuilder_clone(H, self), "min_length", Some(length))

\* tyck.core.complex_types.Optional(builder): builder._default = None on
\* the builder it is given, which it returns.
complex_types_Optional(H, builder) ==
    [H |-> [H EXCEPT !.builders[builder].default = None], ret |-> builder]

\* StringBuilder.to_field_info
StringBuilder_to_field_info(H, self) ==
    LET b == H.builders[self]
        k0 == ("default" :> b.default)
        k1 == IF Truthy(b.alias) THEN ("alias" :> b.alias) @@ k0 ELSE k0
        k2 == IF Truthy(b.description)
              THEN ("description" :> b.description) @@ k1 ELSE k1
        k3 == IF Truthy(b.title) THEN ("title" :> b.title) @@ k2 ELSE k2
        k4 == IF b.examples # None /\ b.examples[1] # <<>>
              THEN ("examples" :> b.examples) @@ k3 ELSE k3
        k5 == IF b.deprecated THEN ("deprecated" :> Some(TRUE)) @@ k4 ELSE k4
    IN <<str,
         Field(AddIfSet(AddIfSet(AddIfSet(k5, "min_length", b.min_length),
                                 "max_length", b.max_length),
                        "pattern", b.pattern))>>

InitSingletons ==
    /\ builders = <<StringValidator_init(1), NumberValidator_init(2, FALSE),
                    StringBuilder_init>>
    /\ dicts = <<EmptyDict, EmptyDict>>
    /\ lists = <<>>
    /\ calls = <<>>
    /\ schemas = <<>>
    /\ derivs = <<>>
    /\ last = NoCall

\* The builders of tyck.types_ and those of tyck.core.
ModernRefs == {i \in 1..Len(builders) : builders[i].cls # "StringBuilder"}

LegacyRefs == RefsOf("StringBuilder")

\* One public call that takes a builder as receiver or argument; every call
\* makes at most one object (a builder or a schema), next to the three
\* singletons.
ObjectCall(op, self, args, r) ==
    /\ Len(calls) + Len(schemas) + 3 < MaxObjects
    /\ builders' = r.H.builders
    /\ dicts' = r.H.dicts
    /\ lists' = r.H.lists
    /\ calls' = Append(calls, [op |-> op, recv |-> self, args |-> args,
                               ret |-> r.ret])
    /\ UNCHANGED <<schemas, derivs, last>>

SingletonDefault == \E self \in ModernRefs, v \in DefaultValues :
    ObjectCall("default", self, <<v>>, TyckType_default(Heap, self, v))

SingletonOptional == \E self \in ModernRefs :
    ObjectCall("optional", self, <<>>, TyckType_optional(Heap, self))

SingletonExamples == \E self \in ModernRefs, vs \in ExampleTuples :
    ObjectCall("examples", self, vs, TyckType_examples(Heap, self, vs))

SingletonJson == \E self \in RefsOf("StringValidator") :
    ObjectCall("json", self, <<>>, StringValidator_json(Heap, self))

SingletonGt == \E self \in RefsOf("NumberValidator") :
    ObjectCall("gt", self, <<0>>, NumberValidator_gt(Heap, self, 0))

SingletonArray == \E item \in ModernRefs :
    ObjectCall("array", item, <<>>, array(Heap, item))

SingletonOptionalFactory == \E wrapped \in ModernRefs :
    ObjectCall("optional()", wrapped, <<>>, optional(Heap, wrapped))

LegacyDefault == \E self \in LegacyRefs, v \in DefaultValues :
    ObjectCall("core.default", self, <<v>>,
               TypeBuilder_default(Heap, self, v))

LegacyMin == \E self \in LegacyRefs :
    ObjectCall("core.min", self, <<2>>, StringBuilder_min(Heap, self, 2))

LegacyOptional == \E builder \in LegacyRefs :
    ObjectCall("core.Optional", builder, <<>>,
               complex_types_Optional(Heap, builder))

ObjectSchemaCall(call, r) ==
    /\ Len(calls) + Len(schemas) + 3 < MaxObjects
    /\ schemas' = r.schemas
    /\ derivs' = Append(derivs, [call EXCEPT !.ret = r.ret])
    /\ last' = [call EXCEPT !.ret = r.ret]
    /\ UNCHANGED <<builders, dicts, lists, calls>>

\* interface({'a': x}) and extend(S, {'b': x}) for a builder x.
SingletonInterface == \E x \in ModernRefs :
    LET fields == <<<<"a", [shape |-> "TyckType", ref |-> x]>>>>
    IN ObjectSchemaCall([NoCall EXCEPT !.op = "interface", !.fields = fields],
                  interface(schemas, Heap, fields, None, None, None, None,
                            None))

SingletonExtend == \E src \in 1..Len(schemas), x \in ModernRefs :
    LET new_fields == <<<<"b", [shape |-> "TyckType", ref |-> x]>>>>
    IN ObjectSchemaCall([NoCall EXCEPT !.op = "extend", !.src = src,
                                 !.fields = new_fields],
                  extend(schemas, Heap, src, new_fields, None, None))

SingletonPartial == \E src \in 1..Len(schemas) :
    ObjectSchemaCall([NoCall EXCEPT !.op = "partial", !.src = src],
               partial(schemas, Heap, src, None, None))

NextSingletons ==
    \/ SingletonDefault \/ SingletonOptional \/ SingletonExamples
    \/ SingletonJson \/ SingletonGt
    \/ SingletonArray \/ SingletonOptionalFactory
    \/ LegacyDefault \/ LegacyMin \/ LegacyOptional
    \/ SingletonInterface \/ SingletonExtend \/ SingletonPartial

SpecSingletons == InitSingletons /\ [][NextSingletons]_vars

\* ------------------------------------------ ValidatedField (descriptor)
\* class User: a = ValidatedField(String.min(2)[, default]); two instances.
\* An instance is its __dict__, one of `dicts`; the class is schemas[1].
ValidatedField_init(builder, default) ==
    [builder |-> builder, default |-> default, name |-> None]

\* __set_name__
ValidatedField_set_name(self, name) == [self EXCEPT !.name = Some(name)]

\* __get__ on an instance
ValidatedField_get(D, self, instance) ==
    IF self.name[1] \notin DOMAIN D[instance]
    THEN IF self.default # PydanticUndefined
         THEN [error |-> "none", value |-> self.default[1]]
         ELSE [error |-> "AttributeError", value |-> NoneValue]
    ELSE [error |-> "none", value |-> D[instance][self.name[1]]]

\* Mutant of __set__: the value is stored before it is validated.
ValidatedField_set_then_validate(H, D, self, instance, value) ==
    LET built == StringBuilder_to_field_info(H, self.builder)
        field_info == [built[2] EXCEPT !.annotation = built[1]]
        validated == validate_value(field_info, value)
    IN [dicts |-> [D EXCEPT ![instance] =
                      (self.name[1] :> value) @@ D[instance]],
        error |-> IF validated.error = "none" THEN "none" ELSE "raised"]

\* __set__: _TempValidator(value=value) for the builder's annotation and
\* FieldInfo; the validated value is stored, and a ValidationError leaves
\* the except branch through one of its two raise statements, so nothing
\* is stored.
ValidatedField_set(H, D, self, instance, value) ==
    LET built == StringBuilder_to_field_info(H, self.builder)
        field_info == [built[2] EXCEPT !.annotation = built[1]]
        validated == validate_value(field_info, value)
    IN IF validated.error = "none"
       THEN [dicts |-> [D EXCEPT ![instance] =
                           (self.name[1] :> validated.value) @@ D[instance]],
             error |-> "none"]
       ELSE [dicts |-> D, error |-> "raised"]

FieldDefaults == {PydanticUndefined, Some(StrValue(<<"d">>))}

FieldInputs ==
    {StrValue(<<"a", "a">>), StrValue(<<"b", "b", "b">>), StrValue(<<"a">>),
     [type |-> "int", n |-> 7]}

InitField ==
    \E default \in FieldDefaults :
        /\ builders = <<StringBuilder_init,
                        [StringBuilder_init EXCEPT !.min_length = Some(2)]>>
        /\ dicts = <<EmptyDict, EmptyDict>>
        /\ lists = <<>>
        /\ calls = <<>>
        /\ schemas = <<[name |-> "User",
                        a |-> ValidatedField_set_name(
                                  ValidatedField_init(2, default), "a")]>>
        /\ derivs = <<>>
        /\ last = NoCall

\* user.a = value
FieldSet == \E instance \in 1..Len(dicts), value \in FieldInputs :
    LET r == ValidatedField_set(Heap, dicts, schemas[1].a, instance, value)
    IN /\ Len(calls) < MaxAssignments
       /\ dicts' = r.dicts
       /\ calls' = Append(calls, [op |-> "set", instance |-> instance,
                                  value |-> value, error |-> r.error])
       /\ UNCHANGED <<builders, lists, schemas, derivs, last>>

\* user.a
FieldGet == \E instance \in 1..Len(dicts) :
    LET r == ValidatedField_get(dicts, schemas[1].a, instance)
    IN /\ Len(calls) < MaxAssignments
       /\ calls' = Append(calls, [op |-> "get", instance |-> instance,
                                  value |-> r.value, error |-> r.error])
       /\ UNCHANGED <<builders, dicts, lists, schemas, derivs, last>>

NextField == FieldSet \/ FieldGet

SpecField == InitField /\ [][NextField]_vars

\* ------------------------------------------------------- call-log helpers
\* The call that returned builder i (builders 1 and 2 are the singletons).
Producer(i) == CHOOSE k \in 1..Len(calls) : calls[k].ret = i

IsChained(i) ==
    \E k \in 1..Len(calls) : calls[k].ret = i /\ calls[k].op # "array"

ConstraintAttrs ==
    {"min_length", "max_length", "pattern", "gt", "ge", "lt", "le",
     "multiple_of"}

\* The constraints a chain call is documented to set, with their values.
WrittenBy(c) ==
    CASE c.op = "min" -> [min_length |-> Some(c.args[1])]
      [] c.op = "max" -> [max_length |-> Some(c.args[1])]
      [] c.op = "length" -> [min_length |-> Some(c.args[1]),
                             max_length |-> Some(c.args[1])]
      [] c.op = "pattern" -> [pattern |-> Some(c.args[1])]
      [] c.op = "email" -> [pattern |-> Some(EMAIL_PATTERN)]
      [] c.op = "url" -> [pattern |-> Some(URL_PATTERN)]
      [] c.op = "uuid" -> [pattern |-> Some(UUID_PATTERN)]
      [] c.op = "datetime" -> [pattern |-> Some(DATETIME_PATTERN)]
      [] c.op = "date" -> [pattern |-> Some(DATE_PATTERN)]
      [] c.op = "time" -> [pattern |-> Some(TIME_PATTERN)]
      [] c.op = "ip" -> [pattern |->
                            IF c.args[1] = Some(4) THEN Some(IPV4_PATTERN)
                            ELSE IF c.args[1] = Some(6) THEN Some(IPV6_PATTERN)
                            ELSE Some(IPV4_OR_IPV6_PATTERN)]
      [] c.op = "gt" -> [gt |-> Some(c.args[1])]
      [] c.op = "gte" -> [ge |-> Some(c.args[1])]
      [] c.op = "lt" -> [lt |-> Some(c.args[1])]
      [] c.op = "lte" -> [le |-> Some(c.args[1])]
      [] c.op = "range" -> [ge |-> Some(c.args[1]), le |-> Some(c.args[2])]
      [] c.op = "positive" -> [gt |-> Some(0)]
      [] c.op = "non_negative" -> [ge |-> Some(0)]
      [] c.op = "negative" -> [lt |-> Some(0)]
      [] c.op = "non_positive" -> [le |-> Some(0)]
      [] c.op = "multiple_of" -> [multiple_of |-> Some(c.args[1])]
      [] OTHER -> EmptyDict

\* The argument of the last call in the chain leading to builder i that set
\* attr, None when no call of the chain set it.
RECURSIVE LastWrite(_, _)
LastWrite(i, attr) ==
    IF ~IsChained(i) THEN None
    ELSE LET c == calls[Producer(i)]
         IN IF attr \in DOMAIN WrittenBy(c) THEN WrittenBy(c)[attr]
            ELSE LastWrite(c.recv, attr)

\* ----------------------------------------------------------------- claims
\* C1: a chain call never changes any builder that existed before it (its
\* attributes, the contents of its constraint map and examples list, its
\* child reference), and it returns a new object distinct from its receiver.
C1_ReceiverNeverMutated ==
    [][/\ \A i \in 1..Len(builders) :
             /\ builders'[i] = builders[i]
             /\ View(Heap', i) = View(Heap, i)
       /\ Len(calls') > Len(calls) =>
             LET c == calls'[Len(calls')]
             IN /\ c.ret # c.recv
                /\ c.ret \notin 1..Len(builders)]_vars

C1_Witness ==
    \E k \in 1..Len(calls) :
        /\ calls[k].op = "json"
        /\ calls[k].recv \in Singletons
        /\ "json_validate" \in DOMAIN dicts[builders[calls[k].ret].constraints]
        /\ DOMAIN dicts[builders[calls[k].recv].constraints] = {}

\* C2: last write wins.  b.min(m).min(n) is observably b.min(n), and after
\* any chain every constraint holds the argument of the last call that set it.
C2_LastWriteWins ==
    /\ \A k1 \in 1..Len(calls), k2 \in 1..Len(calls) :
          ( /\ calls[k1].op = "min" /\ calls[k2].op = "min"
            /\ calls[k2].recv = calls[k1].ret
            /\ builders[calls[k1].recv].cls = "StringValidator" )
          => LET once == StringValidator_min(Heap, calls[k1].recv,
                                             calls[k2].args[1])
             IN View(Heap, calls[k2].ret) = View(once.H, once.ret)
    /\ \A i \in 1..Len(builders) :
          \A attr \in ConstraintAttrs \cap DOMAIN builders[i] :
              builders[i][attr] = LastWrite(i, attr)

C2_Witness ==
    \E k1 \in 1..Len(calls), k2 \in 1..Len(calls) :
        /\ calls[k1].op = "min" /\ calls[k1].args = <<2>>
        /\ calls[k1].recv = string
        /\ calls[k2].op = "min" /\ calls[k2].args = <<5>>
        /\ calls[k2].recv = calls[k1].ret
        /\ builders[calls[k2].ret].min_length = Some(5)

\* C3: sugar is primitive constraints only.  positive/non_negative/negative/
\* non_positive/range/length return the receiver's state with exactly the
\* primitive constraints of gt(0)/gte(0)/lt(0)/lte(0)/gte(a).lte(c)/
\* min(n).max(n) changed, and a two-call chain gte(a).lte(c) or min(n).max(n)
\* ends in the state the sugar call gives on the same receiver.
SugarOf(c) ==
    CASE c.op = "positive" -> [gt |-> Some(0)]
      [] c.op = "non_negative" -> [ge |-> Some(0)]
      [] c.op = "negative" -> [lt |-> Some(0)]
      [] c.op = "non_positive" -> [le |-> Some(0)]
      [] c.op = "range" -> [ge |-> Some(c.args[1]), le |-> Some(c.args[2])]
      [] c.op = "length" -> [min_length |-> Some(c.args[1]),
                             max_length |-> Some(c.args[1])]
      [] OTHER -> EmptyDict

C3_SugarIsPrimitive ==
    /\ \A k \in 1..Len(calls) :
          LET c == calls[k]
              before == View(Heap, c.recv)
          IN DOMAIN SugarOf(c) # {} =>
                View(Heap, c.ret) =
                    [a \in DOMAIN before |->
                        IF a \in DOMAIN SugarOf(c) THEN SugarOf(c)[a]
                        ELSE before[a]]
    /\ \A k1 \in 1..Len(calls), k2 \in 1..Len(calls) :
          LET c1 == calls[k1]
              c2 == calls[k2]
          IN /\ ( /\ c1.op \in {"positive", "non_negative", "negative",
                                 "non_positive"}
                  /\ c2.recv = c1.recv
                  /\ c2.op = (CASE c1.op = "positive" -> "gt"
                                [] c1.op = "non_negative" -> "gte"
                                [] c1.op = "negative" -> "lt"
                                [] c1.op = "non_positive" -> "lte")
                  /\ c2.args = <<0>> )
                => View(Heap, c1.ret) = View(Heap, c2.ret)
             /\ ( /\ c1.op = "gte" /\ c2.op = "lte" /\ c2.recv = c1.ret )
                => LET r == NumberValidator_range(Heap, c1.recv, c1.args[1],
                                                  c2.args[1])
                   IN View(Heap, c2.ret) = View(r.H, r.ret)
             /\ ( /\ c1.op = "min" /\ c2.op = "max" /\ c2.recv = c1.ret
                  /\ c1.args = c2.args )
                => LET r == IF builders[c1.recv].cls = "StringValidator"
                            THEN StringValidator_length(Heap, c1.recv,
                                                        c1.args[1])
                            ELSE ArrayValidator_length(Heap, c1.recv,
                                                       c1.args[1])
                   IN View(Heap, c2.ret) = View(r.H, r.ret)

C3_Witness ==
    /\ \E k1 \in 1..Len(calls), k2 \in 1..Len(calls) :
          /\ calls[k1].op = "positive" /\ calls[k2].op = "gt"
          /\ calls[k2].args = <<0>> /\ calls[k1].recv = calls[k2].recv
          /\ builders[calls[k1].ret].gt = Some(0)

\* ------------------------------------------------ claims: schema algebra
\* derivs[i] is the call that produced schemas[i].
ProducedBy(op) == {i \in 1..Len(schemas) : derivs[i].op = op}

SourceOf(i) == schemas[derivs[i].src]

NameSet(names) == {names[k] : k \in 1..Len(names)}

IsSortedNames(names) ==
    \A k \in 1..(Len(names) - 1) : StrLess(names[k], names[k + 1])

\* C4: without an explicit name the generated name depends on the set of
\* field names only: two interface() calls whose mappings have the same key
\* set get the same name, whatever the insertion order and the constraints
\* of the fields; an explicit name is used unchanged.
C4_NameFromFieldSet ==
    \A i \in ProducedBy("interface") :
        /\ derivs[i].name # None => schemas[i].name = derivs[i].name[1]
        /\ \A j \in ProducedBy("interface") :
              (/\ derivs[i].name = None
               /\ derivs[j].name = None
               /\ KeySet(derivs[i].fields) = KeySet(derivs[j].fields))
              => schemas[i].name = schemas[j].name

\* Two unnamed interfaces over the same two names, given in opposite orders
\* and with different constraints on one field, carry the same name.
C4_Witness ==
    \E i, j \in ProducedBy("interface") :
        /\ derivs[i].name = None /\ derivs[j].name = None
        /\ Len(derivs[i].fields) = 2
        /\ KeySet(derivs[i].fields) = KeySet(derivs[j].fields)
        /\ Keys(derivs[i].fields) # Keys(derivs[j].fields)
        /\ \E k \in 1..2, l \in 1..2 :
              /\ derivs[i].fields[k][1] = derivs[j].fields[l][1]
              /\ derivs[i].fields[k][2] # derivs[j].fields[l][2]
        /\ schemas[i].name = schemas[j].name

\* C5: pick(schema, S) for names S of the source has exactly the fields S, in
\* the order requested, and every picked field is the source's field: same
\* type, constraints, default and metadata, required iff it was required.
C5_PickSubsetInOrder ==
    \A i \in ProducedBy("pick") :
        /\ FieldNamesOf(schemas[i]) = derivs[i].names
        /\ \A n \in FieldSetOf(schemas[i]) :
              /\ FieldInfoOf(schemas[i], n) = FieldInfoOf(SourceOf(i), n)
              /\ IsRequired(FieldInfoOf(schemas[i], n))
                    = IsRequired(FieldInfoOf(SourceOf(i), n))

\* Two fields picked against the source's order, one of them constrained
\* and required, from a source that also has a field with a default.
C5_Witness ==
    \E i \in ProducedBy("pick") :
        /\ Len(derivs[i].names) = 2
        /\ ~IsSortedNames(derivs[i].names)
        /\ IsSortedNames(FieldNamesOf(SourceOf(i)))
        /\ Len(SourceOf(i).model_fields) = 3
        /\ \E n \in FieldSetOf(schemas[i]) :
              /\ FieldInfoOf(schemas[i], n).min_length = Some(2)
              /\ IsRequired(FieldInfoOf(schemas[i], n))
        /\ \E n \in FieldSetOf(schemas[i]) :
              ~IsRequired(FieldInfoOf(schemas[i], n))

\* The pick call that `last` records asked for a name its source lacks.
PickedUnknown(call, S) ==
    /\ call.op = "pick"
    /\ \E k \in 1..Len(call.names) : call.names[k] \notin FieldSetOf(S[call.src])

\* C6 as stated: a pick that names a field the source lacks fails with
\* UnknownFieldError, produces no schema and leaves the schemas as they were.
C6_PickUnknownFieldError ==
    [][PickedUnknown(last', schemas)
       => /\ last'.error = "UnknownFieldError"
          /\ last'.ret = 0
          /\ schemas' = schemas]_vars

\* C6 amended: a pick that names a field the source lacks, also next to
\* names the source has, fails with ValueError, produces no schema and
\* leaves every schema, the source included, as it was.
C6_PickUnknownValueError ==
    [][PickedUnknown(last', schemas)
       => /\ last'.error = "ValueError"
          /\ last'.ret = 0
          /\ schemas' = schemas]_vars

\* A failed pick of one name the source has and one it lacks.
C6_Witness ==
    /\ last.op = "pick"
    /\ last.error = "ValueError"
    /\ \E k \in 1..Len(last.names) :
          last.names[k] \in FieldSetOf(schemas[last.src])
    /\ \E k \in 1..Len(last.names) :
          last.names[k] \notin FieldSetOf(schemas[last.src])
    /\ Len(schemas[last.src].model_fields) = 2

ContentConstraints ==
    {"min_length", "max_length", "pattern", "gt", "ge", "lt", "le",
     "multiple_of"}

\* The keys a caller can supply to populate the fields of a model.
PopulationKeys(model) ==
    {PopulationKey(model.model_fields[k]) : k \in 1..Len(model.model_fields)}

\* C7: omit(schema, S) has exactly the source's fields that S does not name,
\* in the source's order; names the source lacks are ignored and omit does
\* not fail; for S within the source's fields, pick(schema, S) and
\* omit(schema, S) have disjoint field sets whose union is the source's.
C7_OmitComplement ==
    /\ last.op = "omit" => last.error = "none" /\ last.ret = Len(schemas)
    /\ \A i \in ProducedBy("omit") :
          LET S == NameSet(derivs[i].names)
              F == FieldSetOf(SourceOf(i))
              picked == pick(schemas, Heap, derivs[i].src, derivs[i].names,
                             None, None)
          IN /\ FieldSetOf(schemas[i]) = F \ S
             /\ FieldNamesOf(schemas[i])
                   = SelectSeq(FieldNamesOf(SourceOf(i)),
                               LAMBDA n : n \notin S)
             /\ S \subseteq F =>
                   /\ picked.error = "none"
                   /\ FieldSetOf(picked.schemas[picked.ret])
                         \cap FieldSetOf(schemas[i]) = {}
                   /\ FieldSetOf(picked.schemas[picked.ret])
                         \cup FieldSetOf(schemas[i]) = F

\* omit of one name the source has and one it lacks, from a source whose
\* two fields are not in sorted order.
C7_Witness ==
    \E i \in ProducedBy("omit") :
        /\ Len(SourceOf(i).model_fields) = 2
        /\ ~IsSortedNames(FieldNamesOf(SourceOf(i)))
        /\ NameSet(derivs[i].names) \cap FieldSetOf(SourceOf(i)) # {}
        /\ NameSet(derivs[i].names) \ FieldSetOf(SourceOf(i)) # {}
        /\ Len(schemas[i].model_fields) = 1

\* C8: partial(schema) has the source's field names; every field's type is
\* the source's wrapped as Optional, its default is None, and its alias,
\* title and description are the source's; instantiated with no values it
\* is accepted and every field reads None.
C8_PartialAllOptional ==
    \A i \in ProducedBy("partial") :
        /\ FieldNamesOf(schemas[i]) = FieldNamesOf(SourceOf(i))
        /\ \A n \in FieldSetOf(schemas[i]) :
              LET new == FieldInfoOf(schemas[i], n)
                  old == FieldInfoOf(SourceOf(i), n)
              IN /\ new.annotation = TypingOptional(old.annotation)
                 /\ new.default = None
                 /\ new.alias = old.alias
                 /\ new.title = old.title
                 /\ new.description = old.description
        /\ model_init(schemas[i], {}).error = "none"
        /\ model_init(schemas[i], {}).defaulted
              = [n \in FieldSetOf(schemas[i]) |-> None]

\* partial of a schema with a required field that has an alias and a
\* description, a field with a default, and a field with a title.
C8_Witness ==
    \E i \in ProducedBy("partial") :
        /\ Len(schemas[i].model_fields) = 3
        /\ \E n \in FieldSetOf(schemas[i]) :
              /\ IsRequired(FieldInfoOf(SourceOf(i), n))
              /\ FieldInfoOf(schemas[i], n).alias = Some("al")
              /\ FieldInfoOf(schemas[i], n).description = Some("ds")
        /\ \E n \in FieldSetOf(schemas[i]) :
              FieldInfoOf(SourceOf(i), n).default = Some("dv")
        /\ \E n \in FieldSetOf(schemas[i]) :
              FieldInfoOf(schemas[i], n).title = Some("ti")

\* C9: every pattern, length bound and numeric bound of a field of the
\* source is attached to the same field of partial(schema).
C9_PartialKeepsConstraints ==
    \A i \in ProducedBy("partial") :
        \A n \in FieldSetOf(SourceOf(i)) :
            /\ n \in FieldSetOf(schemas[i])
            /\ \A c \in ContentConstraints :
                  FieldInfoOf(schemas[i], n)[c] = FieldInfoOf(SourceOf(i), n)[c]

\* C10: required(schema) has the source's field names and no field has a
\* default, whatever default (None included) the source's field had;
\* instantiating it without a value for some field is rejected.
C10_RequiredNoDefaults ==
    \A i \in ProducedBy("required") :
        /\ FieldNamesOf(schemas[i]) = FieldNamesOf(SourceOf(i))
        /\ \A n \in FieldSetOf(schemas[i]) :
              IsRequired(FieldInfoOf(schemas[i], n))
        /\ \A provided \in SUBSET PopulationKeys(schemas[i]) :
              provided # PopulationKeys(schemas[i])
              => model_init(schemas[i], provided).error = "ValidationError"

\* required of a schema with a field whose default is a value and a field
\* whose default is None.
C10_Witness ==
    \E i \in ProducedBy("required") :
        /\ \E n \in FieldSetOf(schemas[i]) :
              FieldInfoOf(SourceOf(i), n).default = Some("dv")
        /\ \E n \in FieldSetOf(schemas[i]) :
              FieldInfoOf(SourceOf(i), n).default = None
        /\ model_init(SourceOf(i), {}).error = "none"
        /\ model_init(schemas[i], {}).error = "ValidationError"

\* ------------------------------------------- claims: chains of derivations
\* The names of a sequence of names, each once, in order of first occurrence.
RECURSIVE FirstOccurrences(_)
FirstOccurrences(names) ==
    IF names = <<>> THEN <<>>
    ELSE LET k == Len(names)
             rest == FirstOccurrences(SubSeq(names, 1, k - 1))
         IN IF names[k] \in NameSet(rest) THEN rest ELSE Append(rest, names[k])

\* C11: for a schema with fields, required(partial(schema)) has the schema's
\* field names, every field mandatory and carrying the content constraints
\* it had in the schema, and rejects the empty value set that
\* partial(schema) accepts.
C11_RequiredPartialRestores ==
    \A i \in ProducedBy("required") :
        (/\ derivs[derivs[i].src].op = "partial"
         /\ SourceOf(derivs[i].src).model_fields # <<>>)
        => LET original == SourceOf(derivs[i].src)
           IN /\ FieldNamesOf(schemas[i]) = FieldNamesOf(original)
              /\ \A n \in FieldSetOf(schemas[i]) :
                    /\ IsRequired(FieldInfoOf(schemas[i], n))
                    /\ \A c \in ContentConstraints :
                          FieldInfoOf(schemas[i], n)[c]
                             = FieldInfoOf(original, n)[c]
              /\ model_init(SourceOf(i), {}).error = "none"
              /\ model_init(schemas[i], {}).error = "ValidationError"

\* The sources of a merge that define field n, by position in the call.
Definers(i, n) ==
    {k \in 1..Len(derivs[i].srcs) : n \in FieldSetOf(schemas[derivs[i].srcs[k]])}

RECURSIVE ConcatNames(_)
ConcatNames(srcs) ==
    IF srcs = <<>> THEN <<>>
    ELSE FieldNamesOf(schemas[srcs[1]]) \o ConcatNames(Tail(srcs))

\* C12: merge(A, B, ...) has the fields of its sources concatenated in call
\* order, each name once, and a field several sources define is the field
\* (type, constraints, default) of the last source that defines it.
C12_MergeLastWins ==
    \A i \in ProducedBy("merge") :
        /\ FieldNamesOf(schemas[i])
              = FirstOccurrences(ConcatNames(derivs[i].srcs))
        /\ \A n \in FieldSetOf(schemas[i]) :
              LET latest == CHOOSE k \in Definers(i, n) :
                                \A o \in Definers(i, n) : o <= k
              IN FieldInfoOf(schemas[i], n)
                    = FieldInfoOf(schemas[derivs[i].srcs[latest]], n)

\* merge(A, B) where both define "a", A with a length bound and B without.
C12_Witness ==
    \E i \in ProducedBy("merge") :
        /\ Len(derivs[i].srcs) = 2
        /\ "a" \in FieldSetOf(schemas[derivs[i].srcs[1]])
        /\ "a" \in FieldSetOf(schemas[derivs[i].srcs[2]])
        /\ FieldInfoOf(schemas[derivs[i].srcs[1]], "a").min_length = Some(2)
        /\ FieldInfoOf(schemas[derivs[i].srcs[2]], "a").min_length = None
        /\ FieldInfoOf(schemas[i], "a").min_length = None
        /\ Len(schemas[i].model_fields) = 3

\* The field interface() makes of one definition.
InterfaceField(field_def) ==
    create_model(schemas, "X", EmptyDict,
                 <<<<"x", resolve_field(Heap, field_def)>>>>
                ).model.model_fields[1].info

\* C13: extend(base, new_fields) has the base's fields followed by the new
\* names, every new field being what interface() makes of its definition,
\* and a name the base already has carries the extension's definition.
C13_ExtendOverrides ==
    \A i \in ProducedBy("extend") :
        /\ FieldNamesOf(schemas[i])
              = FirstOccurrences(FieldNamesOf(SourceOf(i))
                                 \o Keys(derivs[i].fields))
        /\ \A k \in 1..Len(derivs[i].fields) :
              FieldInfoOf(schemas[i], derivs[i].fields[k][1])
                 = InterfaceField(derivs[i].fields[k][2])
        /\ \A n \in FieldSetOf(SourceOf(i)) \ KeySet(derivs[i].fields) :
              FieldInfoOf(schemas[i], n) = FieldInfoOf(SourceOf(i), n)

\* extend of a base with a constrained "a" by a new name and an
\* unconstrained definition of "a".
C13_Witness ==
    \E i \in ProducedBy("extend") :
        /\ Len(derivs[i].fields) = 2
        /\ "a" \in KeySet(derivs[i].fields)
        /\ KeySet(derivs[i].fields) \ FieldSetOf(SourceOf(i)) # {}
        /\ "a" \in FieldSetOf(SourceOf(i))
        /\ FieldInfoOf(SourceOf(i), "a").min_length = Some(2)
        /\ FieldInfoOf(schemas[i], "a").min_length = None
        /\ Len(schemas[i].model_fields) = 3

\* The classes a call of the schema layer was given.
SourcesOf(call) ==
    IF call.op = "merge" THEN NameSet(call.srcs)
    ELSE IF call.op = "interface" THEN {}
    ELSE {call.src}

\* C14: a call of pick, omit, partial, required, extend or merge leaves
\* every class that existed before it as it was (names, order, types,
\* constraints, defaults, configuration), and what it returns is a new
\* class, none of its sources, also when its fields equal a source's.
C14_SourcesUntouched ==
    [][/\ Len(schemas') >= Len(schemas)
       /\ \A i \in 1..Len(schemas) : schemas'[i] = schemas[i]
       /\ (last' # last /\ last'.error = "none")
          => /\ Len(schemas') = Len(schemas) + 1
             /\ last'.ret = Len(schemas')
             /\ last'.ret \notin SourcesOf(last')]_vars

\* omit with no names: the result has the source's fields and is another
\* class; and a partial with a configuration of its own, whose source has
\* none.
C14_Witness ==
    /\ \E i \in ProducedBy("omit") :
          /\ derivs[i].names = <<>>
          /\ SourceOf(i).model_fields # <<>>
          /\ schemas[i].model_fields = SourceOf(i).model_fields
          /\ i # derivs[i].src
    /\ \E i \in ProducedBy("partial") :
          /\ schemas[i].model_config = {"frozen"}
          /\ SourceOf(i).model_config = {}

\* The call has an empty derived field set.
DerivedEmpty(call) ==
    CASE call.op = "interface" -> call.fields = <<>>
      [] call.op = "pick" -> call.names = <<>>
      [] call.op = "omit" ->
            FieldSetOf(schemas[call.src]) \subseteq NameSet(call.names)
      [] call.op = "merge" ->
            \A k \in 1..Len(call.srcs) :
                schemas[call.srcs[k]].model_fields = <<>>
      [] call.op \in {"partial", "required"} ->
            schemas[call.src].model_fields = <<>>
      [] OTHER -> FALSE

Unrecognized(field_def) ==
    field_def.shape = "tuple" /\ Len(field_def.pair) # 2

HasUnrecognized(call) ==
    /\ call.op = "interface"
    /\ \E k \in 1..Len(call.fields) : Unrecognized(call.fields[k][2])

\* C15 as stated: interface() with a field definition of no recognized
\* shape fails with SchemaDefinitionError and produces no schema, also when
\* every other field resolves.
C15_UnrecognizedSchemaDefinitionError ==
    [][HasUnrecognized(last')
       => /\ last'.error = "SchemaDefinitionError"
          /\ last'.ret = 0
          /\ schemas' = schemas]_vars

\* C15 amended: interface() does not check shapes itself; a tuple that is
\* not a pair is handed to create_model as it is, create_model refuses it
\* with PydanticUserError, and no schema is produced, also when every other
\* field resolves.
C15_UnrecognizedRefusedByEngine ==
    [][HasUnrecognized(last')
       => /\ \A k \in 1..Len(last'.fields) :
                Unrecognized(last'.fields[k][2])
                => resolve_field(Heap, last'.fields[k][2])
                      = last'.fields[k][2]
          /\ last'.error = "PydanticUserError"
          /\ last'.ret = 0
          /\ schemas' = schemas]_vars

\* A refused mapping of a builder-defined field and a three-item tuple.
C15_Witness ==
    /\ last.op = "interface"
    /\ last.error = "PydanticUserError"
    /\ Len(last.fields) = 2
    /\ last.fields[1][2].shape = "TyckType"
    /\ Unrecognized(last.fields[2][2])
    /\ Len(schemas) = 1

TypeOf(value) == IF value = "dv" THEN str ELSE typing_Any

\* The (type, constraints) pair C17 gives for a definition.
ResolvedAs(field_def) ==
    CASE field_def.shape = "TyckType" ->
            [shape |-> "tuple", pair |-> build(Heap, field_def.ref)]
      [] field_def.shape = "model" ->
            [shape |-> "tuple",
             pair |-> <<[base |-> "model", ref |-> field_def.ref],
                        Ellipsis>>]
      [] field_def.shape = "type" ->
            [shape |-> "tuple", pair |-> <<field_def.type, Ellipsis>>]
      [] field_def.shape = "value" ->
            [shape |-> "tuple",
             pair |-> <<TypeOf(field_def.value),
                        Field([default |-> Some(field_def.value)])>>]
      [] field_def.shape = "tuple" -> field_def

C17Shapes == {"TyckType", "model", "type", "value", "tuple"}

\* C17: interface() resolves every definition, in insertion order, to one
\* (type, constraints) pair by its shape: a builder to its build(), a schema
\* type and a raw type to (type, required), a bare default value v to
\* (type of v, default = v), a 2-tuple to itself.
C17_ResolvesByShape ==
    last.op = "interface"
    => LET handed == resolve_fields(Heap, last.fields)
       IN /\ Keys(handed) = Keys(last.fields)
          /\ \A k \in 1..Len(last.fields) :
                (/\ last.fields[k][2].shape \in C17Shapes
                 /\ ~Unrecognized(last.fields[k][2]))
                => handed[k][2] = ResolvedAs(last.fields[k][2])

\* C18: with base=P the schema has P's fields and the mapping's, and P is
\* the parent of the class the engine is asked for; validators= are handed
\* to the engine with the schema.
C18_BaseAndValidatorsHandedOn ==
    \A i \in ProducedBy("interface") :
        /\ derivs[i].base # None
           => /\ schemas[i].built_with.base = derivs[i].base
              /\ FieldNamesOf(schemas[i])
                    = FirstOccurrences(
                         FieldNamesOf(schemas[derivs[i].base[1]])
                         \o Keys(derivs[i].fields))
        /\ derivs[i].validators # None
           => schemas[i].built_with.validators = derivs[i].validators

\* C19: the configuration given to interface() is in what create_model is
\* called with; no class is built from a description without it.
C19_ConfigInCreatingCall ==
    \A i \in ProducedBy("interface") :
        derivs[i].config # None
        => derivs[i].config[1] \subseteq schemas[i].built_with.config

\* ---------------------------------------------- claims: string transforms
\* The input as strip, lower and upper of the chain rewrite it.
Rewritten(chain, chars) ==
    LET s1 == IF "strip" \in NameSet(chain) THEN str_strip(chars) ELSE chars
        s2 == IF "lower" \in NameSet(chain) THEN str_lower(s1) ELSE s1
    IN IF "upper" \in NameSet(chain) THEN str_upper(s2) ELSE s2

\* C20: strip, lower and upper rewrite the raw input before validation:
\* a str input is accepted iff the rewritten value meets the length bound
\* and the pattern, what is stored is the rewritten value, and an input
\* that is not a str reaches validation as it is (and is refused as no str).
C20_TransformBeforeValidation ==
    last.op = "validate"
    => IF last.input.type = "str"
       THEN LET t == Rewritten(last.chain, last.input.chars)
                constrained == "min" \in NameSet(last.chain)
            IN /\ last.error = "none"
                  <=> (constrained => Len(t) >= 2 /\ Matches(LOWER_PATTERN, t))
               /\ last.error = "none" => last.value = StrValue(t)
       ELSE /\ last.error = "ValidationError"
            /\ last.value = last.input

\* string.strip().lower().min(2).pattern(...) given " AA": the raw input
\* does not match the pattern, the rewritten one does, and "aa" is stored.
C20_Witness ==
    /\ last.op = "validate"
    /\ last.chain = <<"strip", "lower", "min", "pattern">>
    /\ last.input = StrValue(<<" ", "A", "A">>)
    /\ last.error = "none"
    /\ last.value = StrValue(<<"a", "a">>)

\* ------------------------------------- claims: numbers and containers
Duplicated(items) ==
    \E i, j \in 1..Len(items) : i # j /\ items[i] = items[j]

\* C21: array(X).unique() refuses a list exactly when two positions of it
\* hold equal elements, for hashable elements (str) and for elements that
\* are not hashable (lists) alike; without unique() duplicates are accepted.
C21_UniqueRejectsDuplicates ==
    last.op = "validate_array"
    => /\ last.error # "none"
            <=> (last.unique /\ Duplicated(last.input.items))
       /\ last.error = "none" => last.value = last.input

\* array(array(string)).unique() given [['a'], ['b'], ['a']] is refused.
C21_Witness ==
    /\ last.op = "validate_array"
    /\ last.nested
    /\ last.unique
    /\ last.input = ListValue(<<ListValue(<<StrValue(<<"a">>)>>),
                                ListValue(<<StrValue(<<"b">>)>>),
                                ListValue(<<StrValue(<<"a">>)>>)>>)
    /\ last.error = "ValidationError"

\* The bounds gt(0) and lte(3) of a chain, on the extended number line.
WithinBounds(ops, v) ==
    /\ "gt" \in ops => v.kind = "inf" \/ (v.kind = "finite" /\ v.n > 0)
    /\ "lte" \in ops => v.kind = "-inf" \/ (v.kind = "finite" /\ v.n <= 3)

\* C22: a number builder with finite() refuses both infinities and NaN and
\* accepts every finite number within its other bounds; without finite()
\* a float field accepts an infinity that its bounds allow.
C22_FiniteRejectsInfNan ==
    last.op = "validate_number"
    => LET ops == NameSet(last.chain)
           v == last.input
       IN IF "finite" \in ops \/ "integer" \in ops
          THEN last.error = "none"
                  <=> (v.kind = "finite" /\ WithinBounds(ops, v))
          ELSE last.error = "none"
                  <=> (WithinBounds(ops, v)
                       /\ (v.kind = "nan" => ops = {}))

\* number.gt(0).finite() refuses positive infinity, which gt(0) allows.
C22_Witness ==
    /\ last.op = "validate_number"
    /\ last.chain = <<"gt", "finite">>
    /\ last.input = FloatValue("inf", 0)
    /\ last.error = "ValidationError"

\* C23: a container resolves to a container of its resolved child, content
\* constraints included: an element the child alone refuses is refused
\* inside array(X) and optional(X).
C23_ContainerKeepsChildConstraints ==
    last.op = "validate_container"
    => (last.alone.error # "none" => last.error # "none")

\* ------------------------------------------------------ claims: singletons
\* The heap as module initialisation leaves it.
PristineHeap ==
    [builders |-> <<StringValidator_init(1), NumberValidator_init(2, FALSE),
                    StringBuilder_init>>,
     dicts |-> <<EmptyDict, EmptyDict>>,
     lists |-> <<>>]

\* C24: the module-level singletons, the legacy ones included, stay in
\* their initial state under every sequence of public calls that take them
\* as receiver or argument, and a schema built from one is what it was.
C24_SingletonsStayPristine ==
    /\ \A s \in Singletons :
          /\ View(Heap, s) = View(PristineHeap, s)
          /\ build(Heap, s) = build(PristineHeap, s)
    /\ builders[core_String] = StringBuilder_init
    /\ StringBuilder_to_field_info(Heap, core_String)
          = StringBuilder_to_field_info(PristineHeap, core_String)

\* C24 for the singletons of tyck.types_ alone.
C24_ModernSingletonsStayPristine ==
    \A s \in Singletons :
        /\ View(Heap, s) = View(PristineHeap, s)
        /\ build(Heap, s) = build(PristineHeap, s)

\* The builder a container builder resolves first: its child.
HasChild(H, i) == H.builders[i].cls \in {"ArrayValidator", "OptionalValidator"}

ChildOf(H, i) ==
    IF H.builders[i].cls = "ArrayValidator" THEN H.builders[i].item_type[1]
    ELSE H.builders[i].wrapped[1]

\* The number of build() calls that build() of builder i makes, itself
\* included.
RECURSIVE build_calls(_, _)
build_calls(H, i) ==
    IF HasChild(H, i) THEN 1 + build_calls(H, ChildOf(H, i)) ELSE 1

\* C25: a container gets its child at construction and clones keep it, so
\* every child is an older builder: the child graph has no cycle, build()
\* of any builder makes at most one build() call per builder there is, and
\* so does interface() over the builders of a mapping.
C25_ResolutionTerminates ==
    /\ \A i \in ModernRefs : HasChild(Heap, i) => ChildOf(Heap, i) < i
    /\ \A i \in ModernRefs : build_calls(Heap, i) <= Len(builders)
    /\ \A k \in 1..Len(derivs) :
          \A f \in 1..Len(derivs[k].fields) :
              derivs[k].fields[f][2].shape = "TyckType"
              => build_calls(Heap, derivs[k].fields[f][2].ref) <= Len(builders)

\* interface({'a': array(array(string))}): three build() calls.
C25_Witness ==
    /\ Len(schemas) = 1
    /\ derivs[1].op = "interface"
    /\ LET x == derivs[1].fields[1][2].ref
       IN /\ builders[x].cls = "ArrayValidator"
          /\ builders[ChildOf(Heap, x)].cls = "ArrayValidator"
          /\ build_calls(Heap, x) = 3

\* ------------------------------------- claims: defaults and the pattern
\* default() or optional() is among the calls of the chain that made i.
RECURSIVE DefaultCalled(_)
DefaultCalled(i) ==
    IF ~IsChained(i) THEN FALSE
    ELSE LET c == calls[Producer(i)]
         IN c.op \in {"default", "optional"} \/ DefaultCalled(c.recv)

\* C26: a builder has a default iff default() or optional() was called
\* somewhere in its chain, and its field is required in the schema exactly
\* when it has none; no chain method clears the flag, and default(None) is
\* a default (None), not the absence of one.
C26_RequiredIffNoDefaultCalled ==
    /\ \A i \in 1..Len(builders) :
          /\ builders[i].has_default <=> DefaultCalled(i)
          /\ IsRequired(build(Heap, i)[2]) <=> ~DefaultCalled(i)
    /\ \A k \in 1..Len(calls) :
          /\ (calls[k].op # "array" /\ builders[calls[k].recv].has_default)
                => builders[calls[k].ret].has_default
          /\ (calls[k].op = "default" /\ calls[k].args = <<None>>)
                => /\ builders[calls[k].ret].has_default
                   /\ build(Heap, calls[k].ret)[2].default = None
                   /\ None # PydanticUndefined

\* string.default(None).<call>: the result is not required, default None.
C26_Witness ==
    \E k1 \in 1..Len(calls), k2 \in 1..Len(calls) :
        /\ calls[k1].op = "default" /\ calls[k1].args = <<None>>
        /\ calls[k1].recv = string
        /\ calls[k2].recv = calls[k1].ret
        /\ calls[k2].op = "min"
        /\ builders[calls[k2].ret].has_default
        /\ ~IsRequired(build(Heap, calls[k2].ret)[2])
        /\ IsRequired(build(Heap, string)[2])

PatternCalls ==
    {"pattern", "email", "url", "uuid", "datetime", "date", "time", "ip"}

\* C27: pattern(), email(), url(), uuid(), datetime(), date(), time() and
\* ip() write one pattern slot: the builder a call returns, and the Field
\* built from it, holds the pattern of that call whatever the receiver's
\* was, and min/max and the transforms are the receiver's.
C27_SinglePatternSlot ==
    \A k \in 1..Len(calls) :
        calls[k].op \in PatternCalls
        => LET new == builders[calls[k].ret]
               old == builders[calls[k].recv]
           IN /\ new.pattern = WrittenBy(calls[k]).pattern
              /\ build(Heap, calls[k].ret)[2].pattern
                    = WrittenBy(calls[k]).pattern
              /\ \A attr \in {"min_length", "max_length", "strip_whitespace",
                              "to_lower", "to_upper"} :
                    new[attr] = old[attr]

\* string.email().pattern('r1') enforces r1 only.
C27_Witness ==
    \E k1 \in 1..Len(calls), k2 \in 1..Len(calls) :
        /\ calls[k1].op = "email" /\ calls[k1].recv = string
        /\ calls[k2].op = "pattern" /\ calls[k2].recv = calls[k1].ret
        /\ builders[calls[k1].ret].pattern = Some(EMAIL_PATTERN)
        /\ build(Heap, calls[k2].ret)[2].pattern = Some("r1")

\* --------------------------------------- claims: order of the transforms
\* The calls of a chain with strip, lower, upper in this order.
Canonical(chain) ==
    SelectSeq(<<"strip", "lower", "upper">>, LAMBDA op : op \in NameSet(chain))
    \o SelectSeq(chain, LAMBDA op : op \notin {"strip", "lower", "upper"})

\* What a field built from string.<chain> makes of an input.
OutcomeOf(chain, input) ==
    LET H0 == [builders |-> <<StringValidator_init(1),
                              NumberValidator_init(2, FALSE)>>,
               dicts |-> <<EmptyDict, EmptyDict>>,
               lists |-> <<>>]
        c == Chain(H0, chain)
        fields == <<<<"a", [shape |-> "TyckType", ref |-> c.ret]>>>>
        r == interface(<<>>, c.H, fields, None, None, None, None, None)
    IN validate_field(FieldInfoOf(r.schemas[r.ret], "a"), input)

\* C28: the order of strip(), lower() and upper() in the chain does not
\* matter: a chain gives, for every input, what the chain with the same
\* calls in the order strip, lower, upper gives, and with both lower() and
\* upper() the stored string is upper-cased whichever was called last.
C28_TransformOrderIrrelevant ==
    last.op = "validate"
    => /\ [error |-> last.error, value |-> last.value]
             = OutcomeOf(Canonical(last.chain), last.input)
       /\ ( /\ {"lower", "upper"} \subseteq NameSet(last.chain)
            /\ last.input.type = "str"
            /\ last.error = "none" )
          => \A i \in 1..Len(last.value.chars) : last.value.chars[i] # "a"

\* string.upper().lower() stores "AA" for "aA".
C28_Witness ==
    /\ last.op = "validate"
    /\ last.chain = <<"upper", "lower">>
    /\ last.input = StrValue(<<"a", "A">>)
    /\ last.error = "none"
    /\ last.value = StrValue(<<"A", "A">>)

\* ------------------------------------------------ claims: generated name
\* The bytes of the sorted field names of a schema's mapping joined by '_'.
JoinedNames(i) == join_encode(sorted(KeySet(derivs[i].fields)))

\* C29: the generated name depends on the field names only through their
\* sorted '_'-join: unnamed schemas whose joined names are equal have the
\* same name, also when their field-name sets differ, and schemas whose
\* joined names hash differently have different names.
C29_NameFromJoinedNames ==
    \A i, j \in ProducedBy("interface") :
        (derivs[i].name = None /\ derivs[j].name = None)
        => /\ JoinedNames(i) = JoinedNames(j)
                 => schemas[i].name = schemas[j].name
           /\ md5_8(JoinedNames(i)) # md5_8(JoinedNames(j))
                 => schemas[i].name # schemas[j].name

\* interface({'a_b': ...}) and interface({'a': ..., 'b': ...}) carry the
\* same name.
C29_Witness ==
    \E i, j \in ProducedBy("interface") :
        /\ derivs[i].name = None /\ derivs[j].name = None
        /\ KeySet(derivs[i].fields) = {"a_b"}
        /\ KeySet(derivs[j].fields) = {"a", "b"}
        /\ schemas[i].name = schemas[j].name

\* ------------------------------------------------ claims: ValidatedField
\* Values String.min(2) accepts.
PassesField(v) == v.type = "str" /\ Len(v.chars) >= 2

\* The successful assignments to an instance among the first n calls.
GoodSets(instance, n) ==
    {k \in 1..n : /\ calls[k].op = "set"
                  /\ calls[k].instance = instance
                  /\ PassesField(calls[k].value)}

LastGood(instance, n) ==
    CHOOSE k \in GoodSets(instance, n) :
        \A o \in GoodSets(instance, n) : o <= k

\* What reading the attribute of an instance gives after the first n calls.
Reads(instance, n) ==
    IF GoodSets(instance, n) # {}
    THEN [error |-> "none", value |-> calls[LastGood(instance, n)].value]
    ELSE IF schemas[1].a.default # PydanticUndefined
    THEN [error |-> "none", value |-> schemas[1].a.default[1]]
    ELSE [error |-> "AttributeError", value |-> NoneValue]

\* C30: an assignment raises exactly when the value fails validation and
\* then leaves the stored value as it was; a read gives the value of the
\* last successful assignment on that instance, else the default, else
\* AttributeError; instances do not share what they store.
C30_FailedAssignmentKeepsValue ==
    /\ \A k \in 1..Len(calls) :
          /\ calls[k].op = "set"
                => (calls[k].error = "none" <=> PassesField(calls[k].value))
          /\ calls[k].op = "get"
                => [error |-> calls[k].error, value |-> calls[k].value]
                      = Reads(calls[k].instance, k)
    /\ \A instance \in 1..Len(dicts) :
          /\ ValidatedField_get(dicts, schemas[1].a, instance)
                = Reads(instance, Len(calls))
          /\ "a" \in DOMAIN dicts[instance]
                <=> GoodSets(instance, Len(calls)) # {}

\* u.a = 'aa' succeeds, u.a = 'a' raises, u.a reads 'aa'; the other instance
\* still has no value of its own.
C30_Witness ==
    /\ Len(calls) = 3
    /\ calls[1] = [op |-> "set", instance |-> 1,
                   value |-> StrValue(<<"a", "a">>), error |-> "none"]
    /\ calls[2].op = "set" /\ calls[2].instance = 1
    /\ calls[2].value = StrValue(<<"a">>) /\ calls[2].error # "none"
    /\ calls[3] = [op |-> "get", instance |-> 1,
                   value |-> StrValue(<<"a", "a">>), error |-> "none"]
    /\ dicts[2] = EmptyDict

====
